---- MODULE Spec2Model ----
(***************************************************************************)
(* koko-voice: the throttling engine (SmartResponseManager), the speech    *)
(* boundary tracker (VoiceActivityDetector), the live-conversation         *)
(* speaking handlers (handleLiveCommand) and the per-speaker capture       *)
(* subscriptions of DiscordVoiceService.                                   *)
(*                                                                         *)
(* Time is the value Date.now() returns, in milliseconds.  A synchronous   *)
(* stretch of JavaScript (a handler up to its next await) is one action    *)
(* and reads one clock value; the clock advances between actions.          *)
(***************************************************************************)
EXTENDS Integers, Sequences, FiniteSets, TLC

(***************************************************************************)
(* Bounds of the model.                                                    *)
(***************************************************************************)
\* number of clock advances in one behaviour
MaxTicks == 2
\* number of clock advances in one behaviour of the voice-spam specification
MaxSpamTicks == 4
\* number of clock advances in one behaviour of the live-conversation specification
MaxLiveTicks == 1
\* number of clock advances in one behaviour of the teardown specification
MaxTeardownTicks == 1
\* monitor commands, monitoring streams, unmute timers, and listeners or
\* mute operations awaiting at one time, in one behaviour of the monitor
MaxMonitorJoins == 2
MaxMonitorStreams == 2
MaxMonitorTimers == 2
MaxAwaiting == 2
\* unmute commands without a user in one behaviour of the monitor
MaxUnmuteAll == 1
\* number of clock advances in one behaviour of the tracking specification
MaxTrackingTicks == 3
\* whole stereo frames in an input buffer of the audio specification
MaxFrames == 6
\* number of clock advances in one behaviour of the priority specification
MaxPriorityTicks == 3
\* entries one key's conversation history may hold
MaxTurns == 2
\* startListening calls between two stopListening calls
MaxListenCalls == 3
\* speaking-end handlers that may be in flight or finished at one time
MaxHandlers == 2
\* capture streams DiscordVoiceService opens in one behaviour
MaxStreams == 3
\* chunks one capture stream delivers
MaxChunks == 2
\* voice connections joinChannel opens in one behaviour
MaxConnections == 2
\* AI sessions startListening creates in one behaviour
MaxSessions == 2
\* audio replies the AI sessions deliver in one behaviour
MaxReplies == 2
\* MAX_RESPONSES_PER_HOUR is read from the environment
\* (smartResponseManager.ts:19, default '20'); the model runs the engine
\* with a small configured value.
MAX_RESPONSES_PER_HOUR == 2

(***************************************************************************)
(* Program constants (defaults of smartResponseManager.ts).                *)
(***************************************************************************)
GLOBAL_COOLDOWN_MS == 30000
USER_COOLDOWN_MS == 60000
VOICE_SPAM_COOLDOWN_MS == 2500
VOICE_SPAM_THRESHOLD == 3
HOUR_MS == 3600000
\* VoiceActivityDetector
MIN_SPEECH_DURATION == 1500
MAX_SPEECH_DURATION == 10000
NOISE_DURATION == 500
MAX_START_AGE == 30000
ACTIVATION_WINDOW_MS == 60000
SPAM_PENALTY_MS == 60000

Users == {"u1", "u2"}
Channels == {"c1"}

\* Date.now() when the module is loaded: any realistic epoch value is far
\* larger than every cooldown, so "no entry" (|| 0) never looks recent.
StartTime == 2 * HOUR_MS

\* the clock advances the model draws from, by specification
HourDeltas == {1, HOUR_MS}
SpamDeltas == {VOICE_SPAM_COOLDOWN_MS, ACTIVATION_WINDOW_MS}
SpamUsers == {"u1"}
\* the activation spacing; just beyond the age at which cleanup() drops a start
TeardownDeltas == {VOICE_SPAM_COOLDOWN_MS, MAX_START_AGE + 1}
\* ages of a start at a sweep: below, at and just beyond the limit of cleanup()
TrackingDeltas == {1, MAX_START_AGE - 1, MAX_START_AGE}
\* stereo frames of the input buffers: the lowest sample value, a frame whose
\* mean is not an integer, and samples at and just below the gate of 100
StereoFrames == {<<-32768, -32768>>, <<-1, 0>>, <<100, -99>>}
\* the bytes of an incomplete trailing frame
PartialFrame == <<255, 127, 1>>
\* the noise gate's default threshold and the one processAudioForGemini passes
Thresholds == {500, 100}
\* expectedChannels and expectedRate of the callers of validateAudioBuffer
ExpectedChannels == {1, 2}
ExpectedRates == {24000, 48000}
\* the keys the callers of the history manager use: user ids and channel ids
HistoryKeys == Users \cup Channels
\* the Content values appended: a turn of the user and a turn of the model
Contents == {"userTurn", "modelTurn"}
\* utterance lengths on both sides of each limit of onVoiceEnd
PriorityDeltas == {300, 499, 500, 1499, 1500, 1800, 10000, 10001, 20000}
\* an utterance of 2,500 ms is 'high', a longer one 'normal'; 30,000 ms let
\* the channel cooldown run out, 60,000 ms the speaker cooldown too
LiveDeltas == {VOICE_SPAM_COOLDOWN_MS, GLOBAL_COOLDOWN_MS, USER_COOLDOWN_MS}
\* the channel handleLiveCommand was invoked in
LiveChannel == "c1"

(***************************************************************************)
(* JavaScript Map: a function on the set of keys present.                  *)
(***************************************************************************)
EmptyMap == [k \in {} |-> 0]
MapHas(m, k) == k \in DOMAIN m
\* m.get(k) || d
MapGet(m, k, d) == IF k \in DOMAIN m /\ m[k] # 0 THEN m[k] ELSE d
MapSet(m, k, v) == [x \in (DOMAIN m) \cup {k} |-> IF x = k THEN v ELSE m[x]]
MapDelete(m, k) == [x \in (DOMAIN m) \ {k} |-> m[x]]

(***************************************************************************)
(* Transcripts: strings as sequences of Unicode code points.               *)
(***************************************************************************)
\* String.prototype.toLowerCase on the Latin and Cyrillic capitals
LowerChar(c) ==
    IF (65 <= c /\ c <= 90) \/ (1040 <= c /\ c <= 1071) THEN c + 32 ELSE c
toLowerCase(s) == [i \in 1..Len(s) |-> LowerChar(s[i])]

\* String.prototype.includes
includes(s, sub) ==
    \E i \in 0..(Len(s) - Len(sub)) :
        \A j \in 1..Len(sub) : s[i + j] = sub[j]

\* 'кокоджамба', 'кокоджамбо', 'коко', 'джамба', 'бот'
BOT_NAMES ==
    { <<1082, 1086, 1082, 1086, 1076, 1078, 1072, 1084, 1073, 1072>>,
      <<1082, 1086, 1082, 1086, 1076, 1078, 1072, 1084, 1073, 1086>>,
      <<1082, 1086, 1082, 1086>>,
      <<1076, 1078, 1072, 1084, 1073, 1072>>,
      <<1073, 1086, 1090>> }

\* the same, without the toLowerCase
containsBotName_caseSensitive(text) ==
    \E name \in BOT_NAMES : includes(text, name)

containsBotName(text) ==
    LET lowerText == toLowerCase(text)
    IN  \E name \in BOT_NAMES : includes(lowerText, name)

\* transcribedText?: string -- absent (undefined) or a string
Undefined == [present |-> FALSE, chars |-> <<>>]
Str(s) == [present |-> TRUE, chars |-> s]
\* undefined, 'Эй БОТ', 'привет'
WakeText == Str(<<1069, 1081, 32, 1041, 1054, 1058>>)
PlainText == Str(<<1087, 1088, 1080, 1074, 1077, 1090>>)
Transcripts == {Undefined, WakeText, PlainText}
SpamTranscripts == {WakeText, PlainText}

\* transcribedText && this.containsBotName(transcribedText)
botNameMentioned(t) == t.present /\ Len(t.chars) > 0 /\ containsBotName(t.chars)

(***************************************************************************)
(* SmartResponseManager.  The object is a record; every method is an       *)
(* operator from the object, its arguments and the clock to the object     *)
(* after the call and the value returned.                                  *)
(***************************************************************************)
NewSmartResponseManager(t) ==
    [ lastResponseTime     |-> EmptyMap,
      userInteractionCount |-> EmptyMap,
      channelCooldowns     |-> EmptyMap,
      lastVoiceActivation  |-> EmptyMap,
      voiceActivationCount |-> EmptyMap,
      userCooldowns        |-> EmptyMap,
      responseCount        |-> 0,
      hourlyResetTime      |-> t + HOUR_MS ]

Ret(m, v) == [srm |-> m, ret |-> v]

isUserInCooldown(m, userId, t) ==
    LET cooldownUntil == MapGet(m.userCooldowns, userId, 0)
    IN  IF cooldownUntil # 0 /\ t < cooldownUntil
        THEN Ret(m, TRUE)
        ELSE Ret([m EXCEPT !.userCooldowns = MapDelete(@, userId)], FALSE)

setUserCooldown(m, userId, durationMs, t) ==
    [m EXCEPT !.userCooldowns = MapSet(@, userId, t + durationMs)]

\* the same, with the activation recorded before the penalty check
checkVoiceSpam_recordsFirst(m, userId, t) ==
    LET m0 == [m EXCEPT !.lastVoiceActivation = MapSet(@, userId, t)]
        c == isUserInCooldown(m0, userId, t)
        lastActivation == MapGet(m.lastVoiceActivation, userId, 0)
        stored == IF MapHas(c.srm.voiceActivationCount, userId)
                  THEN c.srm.voiceActivationCount[userId]
                  ELSE [count |-> 0, resetTime |-> t + ACTIVATION_WINDOW_MS]
        activationData == IF t > stored.resetTime
                          THEN [count |-> 0, resetTime |-> t + ACTIVATION_WINDOW_MS]
                          ELSE stored
    IN  IF c.ret THEN Ret(c.srm, FALSE)
        ELSE IF t - lastActivation < VOICE_SPAM_COOLDOWN_MS THEN Ret(c.srm, FALSE)
        ELSE IF activationData.count >= VOICE_SPAM_THRESHOLD
             THEN Ret(setUserCooldown(c.srm, userId, SPAM_PENALTY_MS, t), FALSE)
             ELSE Ret([c.srm EXCEPT
                         !.voiceActivationCount =
                             MapSet(@, userId,
                                    [activationData EXCEPT !.count = @ + 1])],
                      TRUE)

\* the same, with the threshold compared by > instead of >=
checkVoiceSpam_thresholdOffByOne(m, userId, t) ==
    LET c == isUserInCooldown(m, userId, t)
        lastActivation == MapGet(c.srm.lastVoiceActivation, userId, 0)
        stored == IF MapHas(c.srm.voiceActivationCount, userId)
                  THEN c.srm.voiceActivationCount[userId]
                  ELSE [count |-> 0, resetTime |-> t + ACTIVATION_WINDOW_MS]
        activationData == IF t > stored.resetTime
                          THEN [count |-> 0, resetTime |-> t + ACTIVATION_WINDOW_MS]
                          ELSE stored
    IN  IF c.ret THEN Ret(c.srm, FALSE)
        ELSE IF t - lastActivation < VOICE_SPAM_COOLDOWN_MS THEN Ret(c.srm, FALSE)
        ELSE IF activationData.count > VOICE_SPAM_THRESHOLD
             THEN Ret(setUserCooldown(c.srm, userId, SPAM_PENALTY_MS, t), FALSE)
             ELSE Ret([c.srm EXCEPT
                         !.lastVoiceActivation = MapSet(@, userId, t),
                         !.voiceActivationCount =
                             MapSet(@, userId,
                                    [activationData EXCEPT !.count = @ + 1])],
                      TRUE)

\* the same, without "Reset counter if minute has passed"
checkVoiceSpam_noWindowReset(m, userId, t) ==
    LET c == isUserInCooldown(m, userId, t)
        lastActivation == MapGet(c.srm.lastVoiceActivation, userId, 0)
        activationData == IF MapHas(c.srm.voiceActivationCount, userId)
                          THEN c.srm.voiceActivationCount[userId]
                          ELSE [count |-> 0, resetTime |-> t + ACTIVATION_WINDOW_MS]
    IN  IF c.ret THEN Ret(c.srm, FALSE)
        ELSE IF t - lastActivation < VOICE_SPAM_COOLDOWN_MS THEN Ret(c.srm, FALSE)
        ELSE IF activationData.count >= VOICE_SPAM_THRESHOLD
             THEN Ret(setUserCooldown(c.srm, userId, SPAM_PENALTY_MS, t), FALSE)
             ELSE Ret([c.srm EXCEPT
                         !.lastVoiceActivation = MapSet(@, userId, t),
                         !.voiceActivationCount =
                             MapSet(@, userId,
                                    [activationData EXCEPT !.count = @ + 1])],
                      TRUE)

checkVoiceSpam(m, userId, t) ==
    LET c == isUserInCooldown(m, userId, t)
        lastActivation == MapGet(c.srm.lastVoiceActivation, userId, 0)
        \* this.voiceActivationCount.get(userId) || { count: 0, resetTime: now + 60000 }
        stored == IF MapHas(c.srm.voiceActivationCount, userId)
                  THEN c.srm.voiceActivationCount[userId]
                  ELSE [count |-> 0, resetTime |-> t + ACTIVATION_WINDOW_MS]
        \* "Reset counter if minute has passed"
        activationData == IF t > stored.resetTime
                          THEN [count |-> 0, resetTime |-> t + ACTIVATION_WINDOW_MS]
                          ELSE stored
        \* the reset mutates the object the map holds, when it holds one
        m2 == IF MapHas(c.srm.voiceActivationCount, userId)
              THEN [c.srm EXCEPT
                      !.voiceActivationCount = MapSet(@, userId, activationData)]
              ELSE c.srm
    IN  IF c.ret THEN Ret(c.srm, FALSE)
        ELSE IF t - lastActivation < VOICE_SPAM_COOLDOWN_MS THEN Ret(c.srm, FALSE)
        ELSE IF activationData.count >= VOICE_SPAM_THRESHOLD
             THEN Ret(setUserCooldown(m2, userId, SPAM_PENALTY_MS, t), FALSE)
             ELSE Ret([m2 EXCEPT
                         !.lastVoiceActivation = MapSet(@, userId, t),
                         !.voiceActivationCount =
                             MapSet(@, userId,
                                    [activationData EXCEPT !.count = @ + 1])],
                      TRUE)

\* the same, rolling over already at the deadline instant
hourlyRollover_atDeadline(m, t) ==
    IF t >= m.hourlyResetTime
    THEN [m EXCEPT !.responseCount = 0, !.hourlyResetTime = t + HOUR_MS]
    ELSE m

\* "Reset hourly counter": the first statement pair of both phases
hourlyRollover(m, t) ==
    IF t > m.hourlyResetTime
    THEN [m EXCEPT !.responseCount = 0, !.hourlyResetTime = t + HOUR_MS]
    ELSE m

\* the same, without the per-speaker interaction counter
recordResponse_noInteractionCount(m, userId, channelId, t) ==
    [m EXCEPT
       !.lastResponseTime = MapSet(@, userId, t),
       !.channelCooldowns = MapSet(@, channelId, t),
       !.responseCount = @ + 1]

recordResponse(m, userId, channelId, t) ==
    [m EXCEPT
       !.lastResponseTime = MapSet(@, userId, t),
       !.channelCooldowns = MapSet(@, channelId, t),
       !.responseCount = @ + 1,
       !.userInteractionCount =
           MapSet(@, userId, MapGet(m.userInteractionCount, userId, 0) + 1)]

\* the same, keeping the activation only when no later check rejects the call
shouldConsiderResponse_tracksOnAccept(m, userId, channelId, t, draw) ==
    LET s == checkVoiceSpam(m, userId, t)
        m2 == hourlyRollover(s.srm, t)
        unrecorded == hourlyRollover(isUserInCooldown(m, userId, t).srm, t)
    IN  IF ~s.ret THEN Ret(s.srm, FALSE)
        ELSE IF m2.responseCount >= MAX_RESPONSES_PER_HOUR THEN Ret(unrecorded, FALSE)
        ELSE IF t - MapGet(m2.channelCooldowns, channelId, 0) < GLOBAL_COOLDOWN_MS
             THEN Ret(unrecorded, FALSE)
        ELSE IF t - MapGet(m2.lastResponseTime, userId, 0) < USER_COOLDOWN_MS
             THEN Ret(unrecorded, FALSE)
        ELSE Ret(m2, draw)

\* draw: the outcome of Math.random() < RANDOM_RESPONSE_CHANCE * TRANSCRIPTION_MULTIPLIER
shouldConsiderResponse(m, userId, channelId, t, draw) ==
    LET s == checkVoiceSpam(m, userId, t)
        m2 == hourlyRollover(s.srm, t)
    IN  IF ~s.ret THEN Ret(s.srm, FALSE)
        ELSE IF m2.responseCount >= MAX_RESPONSES_PER_HOUR THEN Ret(m2, FALSE)
        ELSE IF t - MapGet(m2.channelCooldowns, channelId, 0) < GLOBAL_COOLDOWN_MS
             THEN Ret(m2, FALSE)
        ELSE IF t - MapGet(m2.lastResponseTime, userId, 0) < USER_COOLDOWN_MS
             THEN Ret(m2, FALSE)
        ELSE Ret(m2, draw)

\* the same, without the channel cooldown
shouldRespond_noChannelCooldown(m, userId, channelId, text, t, draw) ==
    LET m2 == hourlyRollover(m, t)
    IN  IF m2.responseCount >= MAX_RESPONSES_PER_HOUR THEN Ret(m2, FALSE)
        ELSE IF botNameMentioned(text)
             THEN Ret(recordResponse(m2, userId, channelId, t), TRUE)
        ELSE IF t - MapGet(m2.lastResponseTime, userId, 0) < USER_COOLDOWN_MS
             THEN Ret(m2, FALSE)
        ELSE IF draw THEN Ret(recordResponse(m2, userId, channelId, t), TRUE)
        ELSE Ret(m2, FALSE)

\* the same, with the bot-name check ahead of the hourly limit
shouldRespond_nameBeforeLimit(m, userId, channelId, text, t, draw) ==
    LET m2 == hourlyRollover(m, t)
    IN  IF botNameMentioned(text)
        THEN Ret(recordResponse(m2, userId, channelId, t), TRUE)
        ELSE IF m2.responseCount >= MAX_RESPONSES_PER_HOUR THEN Ret(m2, FALSE)
        ELSE IF t - MapGet(m2.channelCooldowns, channelId, 0) < GLOBAL_COOLDOWN_MS
             THEN Ret(m2, FALSE)
        ELSE IF t - MapGet(m2.lastResponseTime, userId, 0) < USER_COOLDOWN_MS
             THEN Ret(m2, FALSE)
        ELSE IF draw THEN Ret(recordResponse(m2, userId, channelId, t), TRUE)
        ELSE Ret(m2, FALSE)

\* draw: the outcome of Math.random() < RANDOM_RESPONSE_CHANCE
shouldRespond(m, userId, channelId, text, t, draw) ==
    LET m2 == hourlyRollover(m, t)
    IN  IF m2.responseCount >= MAX_RESPONSES_PER_HOUR THEN Ret(m2, FALSE)
        ELSE IF botNameMentioned(text)
             THEN Ret(recordResponse(m2, userId, channelId, t), TRUE)
        ELSE IF t - MapGet(m2.channelCooldowns, channelId, 0) < GLOBAL_COOLDOWN_MS
             THEN Ret(m2, FALSE)
        ELSE IF t - MapGet(m2.lastResponseTime, userId, 0) < USER_COOLDOWN_MS
             THEN Ret(m2, FALSE)
        ELSE IF draw THEN Ret(recordResponse(m2, userId, channelId, t), TRUE)
        ELSE Ret(m2, FALSE)

\* the same, with the difference to the deadline as it is
getStats_rawDifference(m, t) ==
    [responsesThisHour |-> m.responseCount,
     maxResponsesPerHour |-> MAX_RESPONSES_PER_HOUR,
     timeUntilReset |-> m.hourlyResetTime - t,
     activeUsers |-> Cardinality(DOMAIN m.userInteractionCount)]

getStats(m, t) ==
    [responsesThisHour |-> m.responseCount,
     maxResponsesPerHour |-> MAX_RESPONSES_PER_HOUR,
     \* Math.max(0, this.hourlyResetTime - Date.now())
     timeUntilReset |-> IF m.hourlyResetTime - t > 0 THEN m.hourlyResetTime - t ELSE 0,
     activeUsers |-> Cardinality(DOMAIN m.userInteractionCount)]

resetCooldowns(m, t) ==
    [m EXCEPT
       !.lastResponseTime = EmptyMap,
       !.channelCooldowns = EmptyMap,
       !.userInteractionCount = EmptyMap,
       !.responseCount = 0,
       !.hourlyResetTime = t + HOUR_MS]

(***************************************************************************)
(* VoiceActivityDetector: the object is a record, as above.                *)
(***************************************************************************)
NewVoiceActivityDetector == [voiceStartTimes |-> EmptyMap]

onVoiceStart(d, userId, t) ==
    [d EXCEPT !.voiceStartTimes = MapSet(@, userId, t)]

\* onVoiceEnd with the upper end of the 'high' range left out
onVoiceEnd_exclusiveUpperBound(d, m, userId, t) ==
    LET startTime == MapGet(d.voiceStartTimes, userId, 0)
        duration == t - startTime
        d2 == [d EXCEPT !.voiceStartTimes = MapDelete(@, userId)]
        c == isUserInCooldown(m, userId, t)
    IN  IF startTime = 0 THEN [vad |-> d, srm |-> m, ret |-> "normal"]
        ELSE IF c.ret THEN [vad |-> d2, srm |-> c.srm, ret |-> "skip"]
        ELSE IF duration < NOISE_DURATION
             THEN [vad |-> d2, srm |-> c.srm, ret |-> "skip"]
        ELSE IF duration >= MIN_SPEECH_DURATION /\ duration < MAX_SPEECH_DURATION
             THEN [vad |-> d2, srm |-> c.srm, ret |-> "high"]
        ELSE [vad |-> d2, srm |-> c.srm, ret |-> "normal"]

\* returns the detector and the response manager after the call (the
\* cooldown query deletes an expired penalty) and the priority
onVoiceEnd(d, m, userId, t) ==
    LET startTime == MapGet(d.voiceStartTimes, userId, 0)
        duration == t - startTime
        d2 == [d EXCEPT !.voiceStartTimes = MapDelete(@, userId)]
        c == isUserInCooldown(m, userId, t)
    IN  IF startTime = 0 THEN [vad |-> d, srm |-> m, ret |-> "normal"]
        ELSE IF c.ret THEN [vad |-> d2, srm |-> c.srm, ret |-> "skip"]
        ELSE IF duration < NOISE_DURATION
             THEN [vad |-> d2, srm |-> c.srm, ret |-> "skip"]
        ELSE IF duration >= MIN_SPEECH_DURATION /\ duration <= MAX_SPEECH_DURATION
             THEN [vad |-> d2, srm |-> c.srm, ret |-> "high"]
        ELSE [vad |-> d2, srm |-> c.srm, ret |-> "normal"]

\* cleanup() dropping a start already at the age limit
cleanup_atMaxAge(d, t) ==
    [d EXCEPT !.voiceStartTimes =
        [u \in {x \in DOMAIN @ : ~(t - @[x] >= MAX_START_AGE)} |-> @[u]]]

cleanup(d, t) ==
    [d EXCEPT !.voiceStartTimes =
        [u \in {x \in DOMAIN @ : ~(t - @[x] > MAX_START_AGE)} |-> @[u]]]

(***************************************************************************)
(* handleLiveCommand: the receiver.speaking 'end' handler.  It runs in two *)
(* synchronous stretches: up to "await gemini.startConversation", and from *)
(* that promise's settlement to the end.                                   *)
(***************************************************************************)
\* an utterance's record: where its handler is and what it has done
NewUtterance(userId) ==
    [ pc       |-> "start",      \* start, awaitBackend, done
      user     |-> userId,
      priority |-> "none",       \* what onVoiceEnd returned
      phaseA   |-> "notCalled",  \* notCalled, accepted, rejected
      backend  |-> FALSE,        \* gemini.startConversation was invoked
      phaseB   |-> "notCalled",  \* notCalled, accepted, rejected
      asked    |-> Undefined,    \* the transcript shouldRespond was given
      played   |-> FALSE,        \* a player was created and play() issued
      result   |-> [kind |-> "none"] ]  \* what startConversation settled with

\* what gemini.startConversation settles with
BackendResults ==
    [kind : {"result"}, audio : {"empty", "audio"}, transcription : Transcripts]
      \cup [kind : {"recordingError", "otherError"}]

\* the same, treating every priority like 'high'
endHandlerToBackend_alwaysConsider(d, m, ut, channelId, t, draw) ==
    LET e == onVoiceEnd(d, m, ut.user, t)
    IN  IF e.ret = "skip"
        THEN [vad |-> e.vad, srm |-> e.srm,
              ut |-> [ut EXCEPT !.pc = "done", !.priority = "skip"]]
        ELSE [vad |-> e.vad, srm |-> e.srm,
              ut |-> [ut EXCEPT !.pc = "awaitBackend", !.priority = e.ret,
                                !.backend = TRUE]]

\* lines 57-91: fetch, priority, Phase A, the call of the backend
endHandlerToBackend(d, m, ut, channelId, t, draw) ==
    LET e == onVoiceEnd(d, m, ut.user, t)
        a == shouldConsiderResponse(e.srm, ut.user, channelId, t, draw)
    IN  IF e.ret = "skip"
        THEN [vad |-> e.vad, srm |-> e.srm,
              ut |-> [ut EXCEPT !.pc = "done", !.priority = "skip"]]
        ELSE IF e.ret = "high"
        THEN [vad |-> e.vad, srm |-> e.srm,
              ut |-> [ut EXCEPT !.pc = "awaitBackend", !.priority = "high",
                                !.backend = TRUE]]
        ELSE IF ~a.ret
        THEN [vad |-> e.vad, srm |-> a.srm,
              ut |-> [ut EXCEPT !.pc = "done", !.priority = e.ret,
                                !.phaseA = "rejected"]]
        ELSE [vad |-> e.vad, srm |-> a.srm,
              ut |-> [ut EXCEPT !.pc = "awaitBackend", !.priority = e.ret,
                                !.phaseA = "accepted", !.backend = TRUE]]

\* the same, playing the reply whatever shouldRespond returns
endHandlerFromBackend_playsAnyway(m, ut, channelId, res, t, draw) ==
    LET b == shouldRespond(m, ut.user, channelId, res.transcription, t, draw)
    IN  IF res.kind # "result" \/ res.audio = "empty"
        THEN [srm |-> m, ut |-> [ut EXCEPT !.pc = "done"]]
        ELSE [srm |-> b.srm,
              ut |-> [ut EXCEPT !.pc = "done",
                                !.phaseB = IF b.ret THEN "accepted" ELSE "rejected",
                                !.asked = res.transcription, !.played = TRUE]]

\* lines 92-157: the settlement, the empty-audio return, Phase B, playback
endHandlerFromBackend(m, ut, channelId, res, t, draw) ==
    LET b == shouldRespond(m, ut.user, channelId, res.transcription, t, draw)
    IN  IF res.kind # "result" \/ res.audio = "empty"
        THEN [srm |-> m, ut |-> [ut EXCEPT !.pc = "done"]]
        ELSE IF ~b.ret
        THEN [srm |-> b.srm,
              ut |-> [ut EXCEPT !.pc = "done", !.phaseB = "rejected",
                                !.asked = res.transcription]]
        ELSE [srm |-> b.srm,
              ut |-> [ut EXCEPT !.pc = "done", !.phaseB = "accepted",
                                !.asked = res.transcription, !.played = TRUE]]

(***************************************************************************)
(* DiscordVoiceService: connection, player and AI session.                 *)
(* Connections, players and AI sessions are numbered in the order of their *)
(* creation; a field of the service holds such a number, or 0 for null.    *)
(***************************************************************************)
DEFAULT_MAX_RETRIES == 5
RETRY_DELAY_MS == 2000

\* the fields of the service besides activeSubscriptions, and
\* geminiLiveService.currentSession
NewDiscordVoiceService ==
    [connection |-> 0, audioPlayer |-> 0, geminiSession |-> 0,
     isListening |-> FALSE, currentSession |-> 0]

\* nothing in flight: no joinChannel, no createSession, no reconnect handler,
\* no deferred playback; "arrived" counts the replies delivered so far
NoOperations ==
    [join |-> [pc |-> "idle", attempt |-> 0, conn |-> 0, waited |-> <<>>],
     listen |-> "idle",
     reconnects |-> {},
     timers |-> <<>>,
     arrived |-> 0]

(***************************************************************************)
(* AudioProcessor.  A Buffer is a record: its bytes (1-indexed here, so    *)
(* byte offset k is element k + 1), and the byteOffset of the view in its  *)
(* ArrayBuffer; null is a Buffer record with the null flag.  A call        *)
(* returns the Buffer and whether it threw.                                *)
(***************************************************************************)
NullBuffer == [null |-> TRUE, bytes |-> <<>>, byteOffset |-> 0]
\* Buffer.alloc(n): zero-filled, at offset 0 of an ArrayBuffer of its own
Alloc(n) == [null |-> FALSE, bytes |-> [k \in 1..n |-> 0], byteOffset |-> 0]
Returned(b) == [threw |-> FALSE, ret |-> b]
Thrown == [threw |-> TRUE, ret |-> NullBuffer]

\* the two bytes writeInt16LE stores for v, low byte first
Int16Bytes(v) ==
    LET u == IF v < 0 THEN v + 65536 ELSE v
    IN  <<u % 256, u \div 256>>
\* buf.readInt16LE(offset), for an offset within range
readInt16LE(bytes, offset) ==
    LET u == bytes[offset + 1] + 256 * bytes[offset + 2]
    IN  IF u >= 32768 THEN u - 65536 ELSE u
\* readInt16LE throws a RangeError beyond the end
InRange(bytes, offset) == offset >= 0 /\ offset + 2 <= Len(bytes)
\* Math.max(-32768, Math.min(32767, v))
Clamp16(v) == IF v < -32768 THEN -32768 ELSE IF v > 32767 THEN 32767 ELSE v
\* the index the loop leaves at: the first i that meets the bounds test
\* (stops), or n when none does
FirstBreak(n, stops) ==
    IF stops # {}
    THEN CHOOSE i \in stops : \A j \in stops : i <= j
    ELSE n

\* discordToGemini with (left + right) / 2 rounded toward zero
discordToGemini_truncatingMix(b) ==
    LET len == Len(b.bytes)
        outputSamples == (len * 16000) \div (4 * 48000)
        At(i) == ((i * 48000) \div 16000) * 4
        Stops(i) == At(i) + 3 >= len
        brk == FirstBreak(outputSamples, {i \in 0..(outputSamples - 1) : Stops(i)})
        Sum(i) == readInt16LE(b.bytes, At(i)) + readInt16LE(b.bytes, At(i) + 2)
        Mixed(i) == Clamp16(IF Sum(i) < 0 THEN -((-Sum(i)) \div 2) ELSE Sum(i) \div 2)
    IN  IF len < 4 THEN Returned(Alloc(0))
        ELSE IF \E i \in 0..(brk - 1) : ~InRange(b.bytes, At(i) + 2) THEN Thrown
        ELSE Returned([Alloc(2 * outputSamples) EXCEPT !.bytes =
                 [k \in 1..(2 * outputSamples) |->
                    LET i == (k - 1) \div 2
                    IN  IF i < brk THEN Int16Bytes(Mixed(i))[((k - 1) % 2) + 1] ELSE 0]])

\* inputSamples = length / 4 is a multiple of a quarter, and
\* floor(inputSamples * 16000 / 48000) is floor(length * 16000 / (4 * 48000))
discordToGemini(b) ==
    LET len == Len(b.bytes)
        outputSamples == (len * 16000) \div (4 * 48000)
        \* inputByteIndex of output sample i
        At(i) == ((i * 48000) \div 16000) * 4
        Stops(i) == At(i) + 3 >= len
        brk == FirstBreak(outputSamples, {i \in 0..(outputSamples - 1) : Stops(i)})
        Mixed(i) == Clamp16((readInt16LE(b.bytes, At(i))
                              + readInt16LE(b.bytes, At(i) + 2)) \div 2)
    IN  IF len < 4 THEN Returned(Alloc(0))
        ELSE IF \E i \in 0..(brk - 1) : ~InRange(b.bytes, At(i) + 2) THEN Thrown
        ELSE Returned([Alloc(2 * outputSamples) EXCEPT !.bytes =
                 [k \in 1..(2 * outputSamples) |->
                    LET i == (k - 1) \div 2
                    IN  IF i < brk THEN Int16Bytes(Mixed(i))[((k - 1) % 2) + 1] ELSE 0]])

\* geminiToDiscord without the doubling of the rate
geminiToDiscord_sameRate(b) ==
    LET len == Len(b.bytes)
        outputSamples == len \div 2
        At(i) == i * 2
        Stops(i) == At(i) + 1 >= len
        brk == FirstBreak(outputSamples, {i \in 0..(outputSamples - 1) : Stops(i)})
    IN  IF len < 2 THEN Returned(Alloc(0))
        ELSE IF \E i \in 0..(brk - 1) : ~InRange(b.bytes, At(i)) THEN Thrown
        ELSE Returned([Alloc(4 * outputSamples) EXCEPT !.bytes =
                 [k \in 1..(4 * outputSamples) |->
                    LET i == (k - 1) \div 4
                    IN  IF i < brk
                        THEN Int16Bytes(readInt16LE(b.bytes, At(i)))[((k - 1) % 2) + 1]
                        ELSE 0]])

\* inputSamples = length / 2 is a multiple of a half, and
\* floor(inputSamples * 48000 / 24000) is floor(length * 48000 / (2 * 24000))
geminiToDiscord(b) ==
    LET len == Len(b.bytes)
        outputSamples == (len * 48000) \div (2 * 24000)
        \* inputByteIndex of output frame i
        At(i) == ((i * 24000) \div 48000) * 2
        Stops(i) == At(i) + 1 >= len
        brk == FirstBreak(outputSamples, {i \in 0..(outputSamples - 1) : Stops(i)})
    IN  IF len < 2 THEN Returned(Alloc(0))
        ELSE IF \E i \in 0..(brk - 1) : ~InRange(b.bytes, At(i)) THEN Thrown
        ELSE Returned([Alloc(4 * outputSamples) EXCEPT !.bytes =
                 [k \in 1..(4 * outputSamples) |->
                    LET i == (k - 1) \div 4
                    IN  IF i < brk
                        THEN Int16Bytes(readInt16LE(b.bytes, At(i)))[((k - 1) % 2) + 1]
                        ELSE 0]])

\* validateAudioBuffer without the minimum size for the expected channels
validateAudioBuffer_noMinimum(b, expectedChannels, expectedRate) ==
    IF b.null \/ Len(b.bytes) = 0 THEN FALSE
    ELSE IF Len(b.bytes) % 2 # 0 THEN FALSE
    ELSE TRUE

validateAudioBuffer(b, expectedChannels, expectedRate) ==
    IF b.null \/ Len(b.bytes) = 0 THEN FALSE
    ELSE IF Len(b.bytes) % 2 # 0 THEN FALSE
    ELSE IF Len(b.bytes) < expectedChannels * 2 THEN FALSE
    ELSE TRUE

\* applyNoiseGate zeroing the samples at the threshold too
applyNoiseGate_inclusive(b, threshold) ==
    LET len == Len(b.bytes)
        samples == len \div 2
        Abs(v) == IF v < 0 THEN -v ELSE v
        Processed(i) == LET sample == readInt16LE(b.bytes, 2 * i)
                        IN  IF Abs(sample) <= threshold THEN 0 ELSE sample
    IN  IF b.null \/ len = 0 THEN Returned(b)
        ELSE IF b.byteOffset % 2 # 0 THEN Returned(b)
        ELSE Returned([Alloc(len) EXCEPT !.bytes =
                 [k \in 1..len |->
                    LET i == (k - 1) \div 2
                    IN  IF i < samples THEN Int16Bytes(Processed(i))[((k - 1) % 2) + 1]
                        ELSE 0]])

\* new Int16Array(buffer, byteOffset, byteLength / 2) has floor(length / 2)
\* elements and throws a RangeError for an odd byteOffset, which the catch
\* clause answers by returning the input
applyNoiseGate(b, threshold) ==
    LET len == Len(b.bytes)
        samples == len \div 2
        Abs(v) == IF v < 0 THEN -v ELSE v
        Processed(i) == LET sample == readInt16LE(b.bytes, 2 * i)
                        IN  IF Abs(sample) < threshold THEN 0 ELSE sample
    IN  IF b.null \/ len = 0 THEN Returned(b)
        ELSE IF b.byteOffset % 2 # 0 THEN Returned(b)
        ELSE Returned([Alloc(len) EXCEPT !.bytes =
                 [k \in 1..len |->
                    LET i == (k - 1) \div 2
                    IN  IF i < samples THEN Int16Bytes(Processed(i))[((k - 1) % 2) + 1]
                        ELSE 0]])

\* the input buffers: up to MaxFrames stereo frames, up to three bytes of a
\* further frame, as a view at an even or an odd offset; and null
PcmBytes(frames) ==
    [k \in 1..(4 * Len(frames)) |->
        LET f == frames[((k - 1) \div 4) + 1]
        IN  (Int16Bytes(f[1]) \o Int16Bytes(f[2]))[((k - 1) % 4) + 1]]
AudioInputs ==
    { [null |-> FALSE, bytes |-> PcmBytes(fr) \o SubSeq(PartialFrame, 1, e),
       byteOffset |-> o] :
         fr \in UNION {[1..n -> StereoFrames] : n \in 0..MaxFrames},
         e \in 0..3, o \in {0, 1} }
    \cup {NullBuffer}

(***************************************************************************)
(* ConversationHistoryManager.  histories is a Map from a key to the array *)
(* of the Content values appended to it.                                   *)
(***************************************************************************)
\* getHistory: the array stored for the key, or a new empty array; the Map
\* is not written
getHistory(h, channelId) ==
    [ret |-> IF MapHas(h, channelId) THEN h[channelId] ELSE <<>>,
     histories |-> h]

addEntry_prepends(h, channelId, content) ==
    LET created == IF ~MapHas(h, channelId) THEN MapSet(h, channelId, <<>>) ELSE h
    IN  MapSet(created, channelId, <<content>> \o created[channelId])

\* addEntry: set an empty array when the key has none, then push the content
addEntry(h, channelId, content) ==
    LET created == IF ~MapHas(h, channelId) THEN MapSet(h, channelId, <<>>) ELSE h
    IN  MapSet(created, channelId, Append(created[channelId], content))

clearHistory_clearsAll(h, channelId) == EmptyMap

\* clearHistory: histories.delete(channelId)
clearHistory(h, channelId) == MapDelete(h, channelId)

\* clearAllHistories: histories.clear()
clearAllHistories(h) == EmptyMap

\* hasHistory: the key is in the Map and its array is not empty
hasHistory(h, channelId) == MapHas(h, channelId) /\ Len(h[channelId]) > 0

\* the record of the calls: nothing appended, nothing removed
NoTurns == [k \in HistoryKeys |-> [entries |-> <<>>, dropped |-> 0]]
ClearedTurns(t) == [entries |-> <<>>, dropped |-> Len(t.entries)]

\* no startListening call in flight and no 'start' listener registered.
\* pending: the calls awaiting createSession, those made since the last
\* stopListening (fresh) and those made before it (stale); listeners: the
\* 'start' listeners on the receiver of the current connection; run: the
\* startListening calls made since the last stopListening, the AI sessions
\* they created and the listeners they registered; final: stopListening or
\* leaveChannel has returned and startListening was not called since
NoRun == [calls |-> 0, created |-> 0, registered |-> 0]
NotListening ==
    [pending |-> [fresh |-> 0, stale |-> 0], listeners |-> 0, run |-> NoRun,
     final |-> FALSE]

\* the monitor command before its first use
NoMonitor ==
    [connection |-> "none", joins |-> 0, streams |-> <<>>, timers |-> <<>>,
     starting |-> <<>>, muting |-> <<>>,
     unmuteAll |-> [running |-> FALSE, visited |-> {}], unmutes |-> 0,
     speaking |-> [u \in Users |-> "no"], serverMuted |-> {}]

RemoveAt(q, i) == [j \in 1..(Len(q) - 1) |-> IF j < i THEN q[j] ELSE q[j + 1]]

(***************************************************************************)
(* State.                                                                  *)
(***************************************************************************)
VARIABLES
    now,      \* Date.now()
    ticks,    \* clock advances so far
    srm,      \* the smartResponseManager singleton
    last,     \* the most recent step: the call made, its arguments and result
    vad,      \* the voiceActivityDetector singleton
    handlers, \* the speaking-end handlers: slot -> utterance record
    accepted, \* when shouldRespond last returned true, per channel and speaker
    activeSubscriptions, \* DiscordVoiceService.activeSubscriptions: userId -> stream
    streams,  \* the capture streams receiver.subscribe returned, in order
    svc,      \* the other fields of the discordVoiceService singleton
    net,      \* the connections, players and AI sessions created so far
    ops,      \* the asynchronous operations of the service that are in flight
    liveConn, \* status of the connection handleLiveCommand listens on
    activeStreams, \* interactions.ts activeStreams: userId -> monitoring stream
    mutedUsers,    \* interactions.ts mutedUsers: userId -> unmute timer
    monitor,  \* the monitor command's connection, streams, timers and awaits
    histories, \* ConversationHistoryManager.histories: key -> Content[]
    turns,    \* per key: what was appended since its last clear, and how
              \* many entries that clear removed (kept beside the program)
    listening \* the startListening calls awaiting createSession, the 'start'
              \* listeners on the receiver, and a record of the calls made

engineVars == <<srm, last>>
liveVars == <<vad, handlers, accepted>>
voiceVars == <<activeSubscriptions, streams>>
sessionVars == <<svc, net, ops>>
\* the state of the subsystems modelled after the capture subscriptions
monitorVars == <<activeStreams, mutedUsers, monitor>>
historyVars == <<histories, turns>>
laterVars == <<sessionVars, liveConn, monitorVars, historyVars, listening>>
vars == <<now, ticks, srm, last, vad, handlers, accepted, activeSubscriptions,
          streams, svc, net, ops, liveConn, activeStreams, mutedUsers, monitor,
          histories, turns, listening>>

NoCall == [op |-> "none"]

\* the state after construction, but for the record of the latest step
InitProgram ==
    /\ now = StartTime
    /\ ticks = 0
    /\ srm = NewSmartResponseManager(StartTime)
    /\ vad = NewVoiceActivityDetector
    /\ handlers = [h \in 1..MaxHandlers |-> [pc |-> "free"]]
    /\ accepted = [channel |-> EmptyMap, user |-> EmptyMap]
    /\ activeSubscriptions = EmptyMap
    /\ streams = <<>>
    /\ svc = NewDiscordVoiceService
    /\ net = [connections |-> <<>>, players |-> <<>>, sessions |-> <<>>]
    /\ ops = NoOperations
    /\ liveConn = "ready"
    /\ activeStreams = EmptyMap
    /\ mutedUsers = EmptyMap
    /\ monitor = NoMonitor
    /\ histories = EmptyMap
    /\ turns = NoTurns
    /\ listening = NotListening

Init ==
    /\ last = NoCall
    /\ InitProgram

TickBy(D, max) ==
    /\ ticks < max
    /\ \E d \in D : now' = now + d
    /\ ticks' = ticks + 1
    /\ last' = [op |-> "tick"]
    /\ UNCHANGED <<srm, liveVars, voiceVars, laterVars>>

TickHour == TickBy(HourDeltas, MaxTicks)
TickSpam == TickBy(SpamDeltas, MaxSpamTicks)

(***************************************************************************)
(* The throttling engine called directly, with every argument.             *)
(***************************************************************************)
CallShouldConsiderResponse(U) ==
    \E u \in U, c \in Channels, draw \in BOOLEAN :
        LET r == shouldConsiderResponse(srm, u, c, now, draw)
        IN  /\ srm' = r.srm
            /\ last' = [op |-> "shouldConsiderResponse", user |-> u,
                        channel |-> c, ret |-> r.ret,
                        \* the call found a penalty entry whose time had passed
                        expired |-> /\ MapHas(srm.userCooldowns, u)
                                    /\ now >= srm.userCooldowns[u]]
            /\ UNCHANGED <<now, ticks, liveVars, voiceVars, laterVars>>

CallShouldRespond(U, T) ==
    \E u \in U, c \in Channels, text \in T, draw \in BOOLEAN :
        LET r == shouldRespond(srm, u, c, text, now, draw)
        IN  /\ srm' = r.srm
            /\ last' = [op |-> "shouldRespond", user |-> u, channel |-> c,
                        text |-> text, ret |-> r.ret]
            /\ UNCHANGED <<now, ticks, liveVars, voiceVars, laterVars>>

CallResetCooldowns ==
    /\ srm' = resetCooldowns(srm, now)
    /\ last' = [op |-> "resetCooldowns"]
    /\ UNCHANGED <<now, ticks, liveVars, voiceVars, laterVars>>

\* the hourly quota and the response cooldowns: clock steps of 1 ms and 1 h
ThrottleNext ==
    \/ TickHour
    \/ CallShouldConsiderResponse(Users)
    \/ CallShouldRespond(Users, Transcripts)
    \/ CallResetCooldowns

ThrottleSpec == Init /\ [][ThrottleNext]_vars

\* the voice-spam detector: clock steps of the activation spacing and window
SpamNext ==
    \/ TickSpam
    \/ CallShouldConsiderResponse(SpamUsers)
    \/ CallShouldRespond(SpamUsers, SpamTranscripts)
    \/ CallResetCooldowns

SpamSpec == Init /\ [][SpamNext]_vars

CallGetStats ==
    /\ last' = [op |-> "getStats", ret |-> getStats(srm, now)]
    /\ UNCHANGED <<now, ticks, srm, liveVars, voiceVars, laterVars>>

\* the engine with its four public calls, as the live conversation and the
\* stats and reset commands make them
StatsNext ==
    \/ TickHour
    \/ CallShouldConsiderResponse(Users)
    \/ CallShouldRespond(Users, Transcripts)
    \/ CallResetCooldowns
    \/ CallGetStats

StatsSpec == Init /\ [][StatsNext]_vars

(***************************************************************************)
(* The live conversation: speaking events of the receiver, the backend's   *)
(* settlements and the detector's periodic sweep, in every interleaving.   *)
(* The 'start' and 'end' handlers first await users.fetch; the event's     *)
(* arrival changes nothing, so each action is the handler's resumption.    *)
(***************************************************************************)
TickLive ==
    /\ ticks < MaxLiveTicks
    /\ \E d \in LiveDeltas : now' = now + d
    /\ ticks' = ticks + 1
    /\ UNCHANGED <<engineVars, liveVars, voiceVars, laterVars>>

SpeakingStart ==
    \E u \in Users :
        /\ liveConn = "ready"
        /\ vad' = onVoiceStart(vad, u, now)
        /\ UNCHANGED <<now, ticks, engineVars, handlers, accepted, voiceVars, laterVars>>

\* handler slots are interchangeable: a new handler takes the lowest free one
FreeSlots == {h \in 1..MaxHandlers : handlers[h].pc = "free"}
LowestFree == CHOOSE h \in FreeSlots : \A g \in FreeSlots : h <= g

\* a handler that returns leaves its slot; "last" keeps the utterance's record
Park(ut) == IF ut.pc = "done" THEN [pc |-> "free"] ELSE ut

SpeakingEnd ==
    \E u \in Users, draw \in BOOLEAN :
        /\ liveConn = "ready"
        /\ FreeSlots # {}
        /\ LET r == endHandlerToBackend(vad, srm, NewUtterance(u), LiveChannel, now, draw)
           IN  /\ vad' = r.vad
               /\ srm' = r.srm
               /\ handlers' = [handlers EXCEPT ![LowestFree] = Park(r.ut)]
               /\ last' = [op |-> "speakingEnd", ut |-> r.ut]
        /\ UNCHANGED <<now, ticks, accepted, voiceVars, laterVars>>

BackendSettles ==
    \E h \in 1..MaxHandlers, res \in BackendResults, draw \in BOOLEAN :
        /\ handlers[h].pc = "awaitBackend"
        /\ LET r == endHandlerFromBackend(srm, [handlers[h] EXCEPT !.result = res],
                                          LiveChannel, res, now, draw)
           IN  /\ srm' = r.srm
               /\ handlers' = [handlers EXCEPT ![h] = Park(r.ut)]
               /\ last' = [op |-> "speakingEnd", ut |-> r.ut]
               /\ accepted' =
                    IF r.ut.phaseB = "accepted"
                    THEN [channel |-> MapSet(accepted.channel, LiveChannel, now),
                          user |-> MapSet(accepted.user, r.ut.user, now)]
                    ELSE accepted
        /\ UNCHANGED <<now, ticks, vad, voiceVars, laterVars>>

\* setInterval(() => voiceActivityDetector.cleanup(), 60000)
DetectorSweep ==
    /\ vad' = cleanup(vad, now)
    /\ UNCHANGED <<now, ticks, engineVars, handlers, accepted, voiceVars, laterVars>>

LiveNext ==
    \/ TickLive
    \/ SpeakingStart
    \/ SpeakingEnd
    \/ BackendSettles
    \/ DetectorSweep

LiveSpec == Init /\ [][LiveNext]_vars

(***************************************************************************)
(* The end of the live conversation: the Destroyed listener of             *)
(* handleLiveCommand.                                                      *)
(***************************************************************************)
TickTeardown ==
    /\ ticks < MaxTeardownTicks
    /\ \E d \in TeardownDeltas : now' = now + d
    /\ ticks' = ticks + 1
    /\ UNCHANGED <<engineVars, liveVars, voiceVars, laterVars>>

\* onStateChange with newState.status === Destroyed: clearChatSession and
\* clearHistory of the channel, voiceActivityDetector.cleanup(); the
\* receiver of a destroyed connection reports no further speaking events
LiveConnectionDestroyed ==
    /\ liveConn = "ready"
    /\ liveConn' = "destroyed"
    /\ vad' = cleanup(vad, now)
    /\ last' = [op |-> "connectionDestroyed"]
    /\ \E channelId \in Channels :
          /\ histories' = clearHistory(histories, channelId)
          /\ turns' = [turns EXCEPT ![channelId] = ClearedTurns(@)]
    /\ UNCHANGED <<now, ticks, srm, handlers, accepted, voiceVars, sessionVars,
                   monitorVars, listening>>

TeardownNext ==
    \/ TickTeardown
    \/ SpeakingStart
    \/ SpeakingEnd
    \/ BackendSettles
    \/ LiveConnectionDestroyed

TeardownSpec == Init /\ [][TeardownNext]_vars

(***************************************************************************)
(* The monitor command of interactions.ts: per-speaker volume monitoring   *)
(* streams and the unmute timers of createListeningStream.ts.  Streams     *)
(* and timers are numbered in creation order.                              *)
(***************************************************************************)
\* the function createVolumeMonitoringStream returns
streamCleanup(mo, i) == [mo EXCEPT !.streams[i].destroyed = TRUE]

RECURSIVE cleanupAll(_, _)
cleanupAll(mo, S) ==
    IF S = {} THEN mo
    ELSE LET i == CHOOSE x \in S : TRUE
         IN  cleanupAll(streamCleanup(mo, i), S \ {i})

RECURSIVE clearTimeoutAll(_, _)
clearTimeoutAll(mo, T) ==
    IF T = {} THEN mo
    ELSE LET i == CHOOSE x \in T : TRUE
         IN  clearTimeoutAll([mo EXCEPT !.timers[i] =
                                 [@ EXCEPT !.state = IF @ = "pending" THEN "cleared" ELSE @]],
                             T \ {i})

MapValues(f) == {f[k] : k \in DOMAIN f}

\* join: joinVoiceChannel unless the guild has a connection, Ready awaited,
\* the speaking listeners registered
MonitorJoin ==
    /\ monitor.connection # "ready"
    /\ monitor.joins < MaxMonitorJoins
    /\ monitor' = [monitor EXCEPT !.connection = "ready", !.joins = @ + 1]
    /\ last' = [op |-> "monitor"]
    /\ UNCHANGED <<now, ticks, srm, liveVars, voiceVars, sessionVars, liveConn, historyVars, listening,
                   activeStreams, mutedUsers>>

\* the 'start' listener up to its first await; the receiver emits 'start'
\* for a speaker whose latest speaking event on this connection was not
\* 'start', and the listener returns at once when activeStreams has the
\* speaker
MonitorSpeakingStart ==
    \E u \in Users :
        /\ monitor.connection = "ready"
        /\ monitor.speaking[u] # "start"
        /\ ~MapHas(activeStreams, u) => Len(monitor.starting) < MaxAwaiting
        /\ monitor' = [monitor EXCEPT
                          !.speaking[u] = "start",
                          !.starting = IF MapHas(activeStreams, u)
                                       THEN @ ELSE Append(@, u)]
        /\ last' = [op |-> "speakingStart", user |-> u]
        /\ UNCHANGED <<now, ticks, srm, liveVars, voiceVars, sessionVars, liveConn, historyVars, listening,
                       activeStreams, mutedUsers>>

\* users.fetch and members.fetch settle: a 'start' listener runs to its end
StartHandlerResumes ==
    \E i \in 1..Len(monitor.starting), ok \in BOOLEAN :
        LET u == monitor.starting[i]
            rest == [monitor EXCEPT !.starting = RemoveAt(@, i)]
            n == Len(monitor.streams) + 1
        IN  /\ ok => Len(monitor.streams) < MaxMonitorStreams
            /\ IF ok
               THEN /\ monitor' = [rest EXCEPT !.streams =
                                      Append(@, [user |-> u, destroyed |-> FALSE])]
                    /\ activeStreams' = MapSet(activeStreams, u, n)
               ELSE /\ monitor' = rest
                    /\ UNCHANGED activeStreams
            /\ last' = [op |-> "startHandler", user |-> u, created |-> ok]
            /\ UNCHANGED <<now, ticks, srm, liveVars, voiceVars, sessionVars, liveConn, historyVars, listening,
                           mutedUsers>>

\* the 'end' listener; the receiver emits 'end' for a speaker whose latest
\* speaking event was 'start'
MonitorSpeakingEnd ==
    \E u \in Users :
        /\ monitor.connection = "ready"
        /\ monitor.speaking[u] = "start"
        /\ monitor' = [(IF MapHas(activeStreams, u)
                        THEN streamCleanup(monitor, activeStreams[u])
                        ELSE monitor)
                          EXCEPT !.speaking[u] = "end"]
        /\ activeStreams' = MapDelete(activeStreams, u)
        /\ last' = [op |-> "speakingEnd", user |-> u]
        /\ UNCHANGED <<now, ticks, srm, liveVars, voiceVars, sessionVars, liveConn, historyVars, listening,
                       mutedUsers>>

\* decoder 'data' above the volume threshold for a speaker not in
\* mutedUsers: muteUserForBeingLoud up to "await setMute"
LoudData ==
    \E i \in 1..Len(monitor.streams) :
        /\ ~monitor.streams[i].destroyed
        /\ ~MapHas(mutedUsers, monitor.streams[i].user)
        /\ Len(monitor.muting) < MaxAwaiting
        /\ monitor' = [monitor EXCEPT !.muting = Append(@, monitor.streams[i].user)]
        /\ last' = [op |-> "loud", user |-> monitor.streams[i].user]
        /\ UNCHANGED <<now, ticks, srm, liveVars, voiceVars, sessionVars, liveConn, historyVars, listening,
                       activeStreams, mutedUsers>>

\* setMute(true) settles: muteUserForBeingLoud runs to its end
MuteResumes ==
    \E i \in 1..Len(monitor.muting), ok \in BOOLEAN :
        LET u == monitor.muting[i]
            rest == [monitor EXCEPT !.muting = RemoveAt(@, i)]
            n == Len(monitor.timers) + 1
        IN  /\ ok => Len(monitor.timers) < MaxMonitorTimers
            /\ IF ok
               THEN /\ monitor' = [rest EXCEPT
                                      !.timers = Append(@, [user |-> u, state |-> "pending"]),
                                      !.serverMuted = @ \cup {u}]
                    /\ mutedUsers' = MapSet(mutedUsers, u, n)
               ELSE /\ monitor' = rest
                    /\ UNCHANGED mutedUsers
            /\ last' = [op |-> "muteUser", user |-> u, muted |-> ok]
            /\ UNCHANGED <<now, ticks, srm, liveVars, voiceVars, sessionVars, liveConn, historyVars, listening,
                           activeStreams>>

\* member.voice.channel when an unmute runs: the muted members of the model
\* stay in their voice channel
InVoice == {TRUE}

\* "if (member.voice.channel) await member.voice.setMute(false)" of the
\* unmute timer and of the unmute command
setMuteFalse(mo, u, inVoice) ==
    IF inVoice THEN [mo EXCEPT !.serverMuted = @ \ {u}] ELSE mo

\* the unmute timer runs: setMute(false) when the member is in a voice
\* channel, and "finally { mutedUsers.delete(user.id) }"
UnmuteTimerFires ==
    \E i \in 1..Len(monitor.timers), inVoice \in InVoice :
        /\ monitor.timers[i].state = "pending"
        /\ monitor' = setMuteFalse([monitor EXCEPT !.timers[i].state = "fired"],
                                   monitor.timers[i].user, inVoice)
        /\ mutedUsers' = MapDelete(mutedUsers, monitor.timers[i].user)
        /\ last' = [op |-> "unmuteTimer", user |-> monitor.timers[i].user,
                    inVoice |-> inVoice]
        /\ UNCHANGED <<now, ticks, srm, liveVars, voiceVars, sessionVars, liveConn, historyVars, listening,
                       activeStreams>>

\* leave: clearAllHistories, then, when the guild has a connection, every
\* cleanup in activeStreams, activeStreams.clear(), clearTimeout of every
\* timer in mutedUsers, mutedUsers.clear(), connection.destroy(), which
\* ends the receiver and the speaking events of the connection
leave(mo, as, mu) ==
    IF mo.connection = "ready"
    THEN [monitor |-> [clearTimeoutAll(cleanupAll(mo, MapValues(as)), MapValues(mu))
                         EXCEPT !.connection = "destroyed",
                                !.speaking = NoMonitor.speaking],
          activeStreams |-> EmptyMap,
          mutedUsers |-> EmptyMap]
    ELSE [monitor |-> mo, activeStreams |-> as, mutedUsers |-> mu]

MonitorLeave ==
    LET r == leave(monitor, activeStreams, mutedUsers)
    IN  /\ monitor.connection = "ready"
        /\ monitor' = r.monitor
        /\ activeStreams' = r.activeStreams
        /\ mutedUsers' = r.mutedUsers
        /\ last' = [op |-> "leave",
                    streams |-> Cardinality(DOMAIN activeStreams),
                    timers |-> Cardinality(DOMAIN mutedUsers),
                    starting |-> Len(monitor.starting),
                    muting |-> Len(monitor.muting)]
        /\ histories' = clearAllHistories(histories)
        /\ turns' = [k \in HistoryKeys |-> ClearedTurns(turns[k])]
        /\ UNCHANGED <<now, ticks, srm, liveVars, voiceVars, sessionVars, liveConn,
                       listening>>

\* unmute with a user whose timer is in mutedUsers: clearTimeout and
\* mutedUsers.delete, then the member fetch and setMute(false) when the
\* member is in a voice channel
MonitorUnmute ==
    \E u \in Users, inVoice \in InVoice :
        /\ MapHas(mutedUsers, u)
        /\ monitor' = setMuteFalse(clearTimeoutAll(monitor, {mutedUsers[u]}),
                                   u, inVoice)
        /\ mutedUsers' = MapDelete(mutedUsers, u)
        /\ last' = [op |-> "unmute", user |-> u, inVoice |-> inVoice]
        /\ UNCHANGED <<now, ticks, srm, liveVars, voiceVars, sessionVars, liveConn, historyVars, listening,
                       activeStreams>>

\* one stretch of the loop of unmute without a user: the Map iterator
\* yields the next entry not yet visited, whose timer is cleared and whose
\* member is fetched and, when in a voice channel, unmuted; when it yields
\* none the loop ends and mutedUsers.clear() runs
unmuteAllAdvance(mo, mu, inVoice) ==
    LET unvisited == DOMAIN mu \ mo.unmuteAll.visited
    IN  IF unvisited # {}
        THEN LET u == CHOOSE x \in unvisited : TRUE
             IN  [monitor |-> [setMuteFalse(clearTimeoutAll(mo, {mu[u]}), u, inVoice)
                                 EXCEPT
                                 !.unmuteAll = [running |-> TRUE,
                                                visited |-> mo.unmuteAll.visited \cup {u}]],
                  mutedUsers |-> mu]
        ELSE [monitor |-> [mo EXCEPT !.unmuteAll = [running |-> FALSE, visited |-> {}]],
              mutedUsers |-> EmptyMap]

MonitorUnmuteAll ==
    \E inVoice \in InVoice :
    LET r == unmuteAllAdvance([monitor EXCEPT !.unmutes = @ + 1], mutedUsers, inVoice)
    IN  /\ ~monitor.unmuteAll.running
        /\ monitor.unmutes < MaxUnmuteAll
        /\ monitor' = r.monitor
        /\ mutedUsers' = r.mutedUsers
        /\ last' = [op |-> "unmuteAll", inVoice |-> inVoice,
                    users |-> r.monitor.unmuteAll.visited \ monitor.unmuteAll.visited]
        /\ UNCHANGED <<now, ticks, srm, liveVars, voiceVars, sessionVars, liveConn, historyVars, listening,
                       activeStreams>>

\* the member fetch and setMute(false) of the entry visited last settle
UnmuteAllResumes ==
    \E inVoice \in InVoice :
    LET r == unmuteAllAdvance(monitor, mutedUsers, inVoice)
    IN  /\ monitor.unmuteAll.running
        /\ monitor' = r.monitor
        /\ mutedUsers' = r.mutedUsers
        /\ last' = [op |-> "unmuteAll", inVoice |-> inVoice,
                    users |-> r.monitor.unmuteAll.visited \ monitor.unmuteAll.visited]
        /\ UNCHANGED <<now, ticks, srm, liveVars, voiceVars, sessionVars, liveConn, historyVars, listening,
                       activeStreams>>

MonitorNext ==
    \/ MonitorJoin
    \/ MonitorSpeakingStart
    \/ StartHandlerResumes
    \/ MonitorSpeakingEnd
    \/ LoudData
    \/ MuteResumes
    \/ UnmuteTimerFires
    \/ MonitorUnmute
    \/ MonitorUnmuteAll
    \/ UnmuteAllResumes
    \/ MonitorLeave

MonitorSpec == Init /\ [][MonitorNext]_vars

\* the monitor with its timers and promises: a pending setTimeout callback
\* runs, and the awaited look-ups and setMute calls settle
MonitorFairSpec ==
    /\ MonitorSpec
    /\ WF_vars(StartHandlerResumes)
    /\ WF_vars(MuteResumes)
    /\ WF_vars(UnmuteTimerFires)
    /\ WF_vars(UnmuteAllResumes)

(***************************************************************************)
(* The detector called directly: utterances of every length around the     *)
(* limits of onVoiceEnd, of a speaker who may be under a spam penalty.     *)
(***************************************************************************)
TickPriority == TickBy(PriorityDeltas, MaxPriorityTicks)

CallOnVoiceStart ==
    \E u \in SpamUsers :
        /\ vad' = onVoiceStart(vad, u, now)
        /\ last' = [op |-> "onVoiceStart", user |-> u]
        /\ UNCHANGED <<now, ticks, srm, handlers, accepted, voiceVars, laterVars>>

CallOnVoiceEnd ==
    \E u \in SpamUsers :
        LET r == onVoiceEnd(vad, srm, u, now)
        IN  /\ vad' = r.vad
            /\ srm' = r.srm
            /\ last' = [op |-> "onVoiceEnd", user |-> u,
                        tracked |-> MapHas(vad.voiceStartTimes, u),
                        penalised |-> isUserInCooldown(srm, u, now).ret,
                        duration |-> now - MapGet(vad.voiceStartTimes, u, now),
                        ret |-> r.ret]
            /\ UNCHANGED <<now, ticks, handlers, accepted, voiceVars, laterVars>>

(***************************************************************************)
(* The detector's tracking map: starts, ends and sweeps of two speakers,   *)
(* with clock steps on both sides of the sweep's age limit.                *)
(***************************************************************************)
TickTracking == TickBy(TrackingDeltas, MaxTrackingTicks)

TrackVoiceStart ==
    \E u \in Users :
        /\ vad' = onVoiceStart(vad, u, now)
        /\ last' = [op |-> "onVoiceStart", user |-> u, before |-> vad.voiceStartTimes]
        /\ UNCHANGED <<now, ticks, srm, handlers, accepted, voiceVars, laterVars>>

TrackVoiceEnd ==
    \E u \in Users :
        LET r == onVoiceEnd(vad, srm, u, now)
        IN  /\ vad' = r.vad
            /\ srm' = r.srm
            /\ last' = [op |-> "onVoiceEnd", user |-> u, ret |-> r.ret,
                        before |-> vad.voiceStartTimes]
            /\ UNCHANGED <<now, ticks, handlers, accepted, voiceVars, laterVars>>

\* setInterval(() => voiceActivityDetector.cleanup(), 60000)
TrackSweep ==
    /\ vad' = cleanup(vad, now)
    /\ last' = [op |-> "cleanup", before |-> vad.voiceStartTimes]
    /\ UNCHANGED <<now, ticks, srm, handlers, accepted, voiceVars, laterVars>>

TrackingNext ==
    \/ TickTracking
    \/ TrackVoiceStart
    \/ TrackVoiceEnd
    \/ TrackSweep

TrackingSpec == Init /\ [][TrackingNext]_vars

(***************************************************************************)
(* AudioProcessor called directly: a behaviour starts with an input buffer *)
(* and applies one function to it.                                         *)
(***************************************************************************)
AudioInit ==
    /\ last \in {[op |-> "input", buffer |-> b] : b \in AudioInputs}
    /\ InitProgram

Apply(call) ==
    /\ last' = call
    /\ UNCHANGED <<now, ticks, srm, liveVars, voiceVars, laterVars>>

CallDiscordToGemini ==
    /\ last.op = "input"
    /\ ~last.buffer.null
    /\ Apply([op |-> "discordToGemini", input |-> last.buffer,
              result |-> discordToGemini(last.buffer)])

CallGeminiToDiscord ==
    /\ last.op = "input"
    /\ ~last.buffer.null
    /\ Apply([op |-> "geminiToDiscord", input |-> last.buffer,
              result |-> geminiToDiscord(last.buffer)])

\* a valid platform buffer converted to the backend format and back
CallRoundTrip ==
    /\ last.op = "input"
    /\ validateAudioBuffer(last.buffer, 2, 48000)
    /\ Len(last.buffer.bytes) % 4 = 0
    /\ LET there == discordToGemini(last.buffer)
           back == IF there.threw THEN Thrown ELSE geminiToDiscord(there.ret)
       IN  Apply([op |-> "roundTrip", input |-> last.buffer, result |-> back])

CallApplyNoiseGate ==
    \E threshold \in Thresholds :
        /\ last.op = "input"
        /\ Apply([op |-> "applyNoiseGate", input |-> last.buffer, threshold |-> threshold,
                  result |-> applyNoiseGate(last.buffer, threshold)])

CallValidateAudioBuffer ==
    \E expectedChannels \in ExpectedChannels, expectedRate \in ExpectedRates :
        /\ last.op = "input"
        /\ Apply([op |-> "validateAudioBuffer", input |-> last.buffer,
               expectedChannels |-> expectedChannels, expectedRate |-> expectedRate,
               ret |-> validateAudioBuffer(last.buffer, expectedChannels, expectedRate)])

AudioNext ==
    \/ CallDiscordToGemini
    \/ CallGeminiToDiscord
    \/ CallRoundTrip
    \/ CallApplyNoiseGate
    \/ CallValidateAudioBuffer

AudioSpec == AudioInit /\ [][AudioNext]_vars

(***************************************************************************)
(* The conversation history on its own: any caller, any key, any order of  *)
(* calls.                                                                  *)
(***************************************************************************)
HistoryFrame == UNCHANGED <<now, ticks, srm, liveVars, voiceVars, sessionVars,
                            liveConn, monitorVars, listening>>

CallAddEntry ==
    \E channelId \in HistoryKeys, content \in Contents :
        /\ Len(getHistory(histories, channelId).ret) < MaxTurns
        /\ histories' = addEntry(histories, channelId, content)
        /\ turns' = [turns EXCEPT ![channelId].entries = Append(@, content)]
        /\ last' = [op |-> "addEntry", channelId |-> channelId, content |-> content]
        /\ HistoryFrame

CallGetHistory ==
    \E channelId \in HistoryKeys :
        LET r == getHistory(histories, channelId)
        IN  /\ histories' = r.histories
            /\ last' = [op |-> "getHistory", channelId |-> channelId, ret |-> r.ret]
            /\ UNCHANGED turns
            /\ HistoryFrame

CallHasHistory ==
    \E channelId \in HistoryKeys :
        /\ last' = [op |-> "hasHistory", channelId |-> channelId,
                    ret |-> hasHistory(histories, channelId)]
        /\ UNCHANGED historyVars
        /\ HistoryFrame

CallClearHistory ==
    \E channelId \in HistoryKeys :
        /\ histories' = clearHistory(histories, channelId)
        /\ turns' = [turns EXCEPT ![channelId] = ClearedTurns(@)]
        /\ last' = [op |-> "clearHistory", channelId |-> channelId]
        /\ HistoryFrame

CallClearAllHistories ==
    /\ histories' = clearAllHistories(histories)
    /\ turns' = [k \in HistoryKeys |-> ClearedTurns(turns[k])]
    /\ last' = [op |-> "clearAllHistories"]
    /\ HistoryFrame

HistoryNext ==
    \/ CallAddEntry
    \/ CallGetHistory
    \/ CallHasHistory
    \/ CallClearHistory
    \/ CallClearAllHistories

HistorySpec == Init /\ [][HistoryNext]_vars

PriorityNext ==
    \/ TickPriority
    \/ CallOnVoiceStart
    \/ CallOnVoiceEnd
    \/ CallShouldConsiderResponse(SpamUsers)

PrioritySpec == Init /\ [][PriorityNext]_vars

(***************************************************************************)
(* DiscordVoiceService: the per-speaker capture subscriptions.             *)
(* A capture stream is a Node Readable: it emits 'data' while it is live,  *)
(* then 'end' or 'error' at most once, and 'close' last; destroying it     *)
(* emits 'close' alone.  When these events arrive relative to the          *)
(* receiver's speaking events is up to the event loop.                     *)
(***************************************************************************)
\* receiver.subscribe(userId, ...) hands out a stream; audioBuffer, the array
\* the handlers of this stream close over, starts empty; "delivered" counts
\* the chunks the receiver has emitted on the stream
NewAudioStream(userId) ==
    [user |-> userId, state |-> "live", audioBuffer |-> <<>>, delivered |-> 0]

\* the k-th Opus chunk the receiver emits on a stream of speaker userId
Chunk(userId, k) == [user |-> userId, n |-> k]

\* audioBuffer.push(chunk) in the 'data' handler of stream s, with every
\* stream sharing one array
pushChunk_sharedBuffer(strs, s, chunk) ==
    [x \in 1..Len(strs) |->
        IF x = s THEN [strs[x] EXCEPT !.audioBuffer = Append(@, chunk),
                                      !.delivered = @ + 1]
        ELSE IF strs[x].state = "live"
             THEN [strs[x] EXCEPT !.audioBuffer = Append(@, chunk)]
        ELSE strs[x]]

\* audioBuffer.push(chunk) in the 'data' handler of stream s
pushChunk(strs, s, chunk) ==
    [strs EXCEPT ![s].audioBuffer = Append(@, chunk), ![s].delivered = @ + 1]

\* subscribeToUser(userId, receiver); throws: receiver.subscribe raised
subscribeToUser(subs, strs, userId, throws) ==
    IF MapHas(subs, userId)
    THEN [activeSubscriptions |-> subs, streams |-> strs]
    ELSE IF throws
    THEN [activeSubscriptions |-> MapDelete(subs, userId), streams |-> strs]
    ELSE [activeSubscriptions |-> MapSet(subs, userId, Len(strs) + 1),
          streams |-> Append(strs, NewAudioStream(userId))]

\* receiver.speaking.on("start", userId => this.subscribeToUser(userId, ...))
VoiceSpeakingStart ==
    \E u \in Users, throws \in BOOLEAN :
        /\ MapHas(activeSubscriptions, u) \/ throws \/ Len(streams) < MaxStreams
        /\ LET r == subscribeToUser(activeSubscriptions, streams, u, throws)
           IN  /\ activeSubscriptions' = r.activeSubscriptions
               /\ streams' = r.streams
        /\ UNCHANGED <<now, ticks, engineVars, liveVars, laterVars>>

\* audioStream.on("data", chunk => audioBuffer.push(chunk))
AudioStreamData ==
    \E s \in 1..Len(streams) :
        /\ streams[s].state = "live"
        /\ streams[s].delivered < MaxChunks
        /\ streams' = pushChunk(streams, s,
                                Chunk(streams[s].user, streams[s].delivered + 1))
        /\ UNCHANGED <<now, ticks, engineVars, liveVars, activeSubscriptions, laterVars>>

\* audioStream.on("end", ...): drop the speaker's entry and, unless the
\* array is empty, hand Buffer.concat(audioBuffer) to processAudioForGemini
AudioStreamEnd ==
    \E s \in 1..Len(streams) :
        /\ streams[s].state = "live"
        /\ streams' = [streams EXCEPT ![s].state = "ended"]
        /\ activeSubscriptions' = MapDelete(activeSubscriptions, streams[s].user)
        /\ last' = [op |-> "streamEnd", stream |-> s,
                    processed |-> Len(streams[s].audioBuffer) > 0,
                    combinedBuffer |-> streams[s].audioBuffer]
        /\ UNCHANGED <<now, ticks, srm, liveVars, laterVars>>

\* audioStream.on("error", ...): drop the speaker's entry
AudioStreamError ==
    \E s \in 1..Len(streams) :
        /\ streams[s].state = "live"
        /\ streams' = [streams EXCEPT ![s].state = "errored"]
        /\ activeSubscriptions' = MapDelete(activeSubscriptions, streams[s].user)
        /\ UNCHANGED <<now, ticks, engineVars, liveVars, laterVars>>

\* audioStream.on("close", ...): drop the speaker's entry
AudioStreamClose ==
    \E s \in 1..Len(streams) :
        /\ streams[s].state \in {"live", "ended", "errored"}
        /\ streams' = [streams EXCEPT ![s].state = "closed"]
        /\ activeSubscriptions' = MapDelete(activeSubscriptions, streams[s].user)
        /\ UNCHANGED <<now, ticks, engineVars, liveVars, laterVars>>

VoiceNext ==
    \/ VoiceSpeakingStart
    \/ AudioStreamData
    \/ AudioStreamEnd
    \/ AudioStreamError
    \/ AudioStreamClose

VoiceSpec == Init /\ [][VoiceNext]_vars

(***************************************************************************)
(* DiscordVoiceService: joining, listening, replies, reconnection and      *)
(* teardown.  The methods work on a record of the service's fields, the    *)
(* objects it refers to, the subscription map and the list of the steps    *)
(* the call has performed so far.                                          *)
(***************************************************************************)
World == [svc |-> svc, net |-> net, subs |-> activeSubscriptions, steps |-> <<>>]

\* cleanup()
serviceCleanup(w) ==
    LET p == w.svc.audioPlayer
    IN  [svc |-> [w.svc EXCEPT !.audioPlayer = 0, !.geminiSession = 0,
                               !.isListening = FALSE],
         net |-> IF p # 0 THEN [w.net EXCEPT !.players[p].stopped = TRUE] ELSE w.net,
         subs |-> EmptyMap,
         steps |-> w.steps \o (IF p # 0 THEN <<"playerStopped">> ELSE <<>>)
                           \o <<"subscriptionsCleared">>]

\* connection.destroy() on connection c: the status becomes Destroyed and the
\* listener setupConnectionHandlers registered for it, if any, runs cleanup()
destroy(w, c) ==
    LET w1 == [w EXCEPT !.net.connections[c].status = "destroyed",
                        !.steps = Append(@, "transportDestroyed")]
    IN  IF w.net.connections[c].handlers THEN serviceCleanup(w1) ELSE w1

\* geminiSession.close(): closes the socket and sets
\* geminiLiveService.currentSession to null
closeSession(w, g) ==
    [w EXCEPT !.net.sessions[g].closed = TRUE,
              !.svc.currentSession = 0,
              !.steps = Append(@, "aiSessionClosed")]

\* stopListening()
stopListening(w) ==
    LET g == w.svc.geminiSession
        w1 == IF g # 0 THEN [closeSession(w, g) EXCEPT !.svc.geminiSession = 0] ELSE w
    IN  [w1 EXCEPT !.svc.isListening = FALSE]

\* leaveChannel()
leaveChannel(w) ==
    LET w1 == stopListening(w)
        c == w1.svc.connection
        w2 == IF c # 0
              THEN LET d == destroy(w1, c)
                   IN  [d EXCEPT !.svc.connection = 0,
                                 !.steps = Append(@, "handleReleased")]
              ELSE w1
    IN  serviceCleanup(w2)

\* setupConnectionHandlers(); setupAudioPlayer(): the tail of joinChannel
\* after waitForConnectionReady has returned
setupAfterReady(w) ==
    LET c == w.svc.connection
    IN  IF c = 0 THEN w
        ELSE [w EXCEPT !.net.connections[c].handlers = TRUE,
                       !.net.players = Append(@, [stopped |-> FALSE, voice |-> c,
                                                   played |-> <<>>]),
                       !.svc.audioPlayer = Len(w.net.players) + 1]

\* the same, playing whatever the conversion returns
playAudioToDiscord_noEmptyCheck(w, reply) ==
    LET p == w.svc.audioPlayer
    IN  IF p = 0 THEN w
        ELSE IF w.svc.connection = 0 THEN w
        ELSE [w EXCEPT !.net.players[p].played =
                 Append(@, [session |-> reply.session, n |-> reply.n,
                            onStopped |-> w.net.players[p].stopped])]

\* playAudioToDiscord(audioData); reply.empty: geminiToDiscord returns an
\* empty buffer for it
playAudioToDiscord(w, reply) ==
    LET p == w.svc.audioPlayer
    IN  IF p = 0 THEN w
        ELSE IF w.svc.connection = 0 THEN w
        ELSE IF reply.empty THEN w
        ELSE [w EXCEPT !.net.players[p].played =
                 Append(@, [session |-> reply.session, n |-> reply.n,
                            onStopped |-> w.net.players[p].stopped])]

\* the same, waiting once more after the last attempt
attemptFailed_waitsAfterLast(w, j) ==
    IF j.attempt = DEFAULT_MAX_RETRIES
    THEN [w |-> serviceCleanup(w),
          join |-> [j EXCEPT !.pc = "failed",
                             !.waited = Append(@, RETRY_DELAY_MS * j.attempt)]]
    ELSE [w |-> w,
          join |-> [j EXCEPT !.pc = "backoff",
                             !.waited = Append(@, RETRY_DELAY_MS * j.attempt)]]

\* the end of an attempt of waitForConnectionReady that failed
attemptFailed(w, j) ==
    IF j.attempt = DEFAULT_MAX_RETRIES
    THEN [w |-> serviceCleanup(w), join |-> [j EXCEPT !.pc = "failed"]]
    ELSE [w |-> w,
          join |-> [j EXCEPT !.pc = "backoff",
                             !.waited = Append(@, RETRY_DELAY_MS * j.attempt)]]

\* the Disconnected listener of setupConnectionHandlers gives up:
\* this.connection?.destroy(); this.connection = null; this.cleanup()
reconnectFailed(w) ==
    LET c == w.svc.connection
        w1 == IF c # 0 THEN destroy(w, c) ELSE w
    IN  serviceCleanup([w1 EXCEPT !.svc.connection = 0])

Commit(w, o, opName) ==
    /\ svc' = w.svc
    /\ net' = w.net
    /\ activeSubscriptions' = w.subs
    /\ ops' = o
    /\ last' = IF w.steps # <<>> THEN [op |-> opName, steps |-> w.steps]
                ELSE [op |-> "service"]
    /\ UNCHANGED <<now, ticks, srm, liveVars, streams, liveConn, monitorVars,
                   historyVars, listening>>

\* joinChannel(channel) up to the first await; permitted: the permission
\* checks of lines 41-62 pass
JoinChannel ==
    \E permitted \in BOOLEAN :
        /\ ops.join.pc \in {"idle", "returned", "failed"}
        /\ Len(net.connections) < MaxConnections
        /\ LET w1 == IF svc.connection # 0 THEN leaveChannel(World) ELSE World
               c == Len(net.connections) + 1
               w2 == [w1 EXCEPT !.net.connections =
                                   Append(@, [status |-> "signalling", handlers |-> FALSE]),
                                !.svc.connection = c]
           IN  IF permitted
               THEN Commit(w2, [ops EXCEPT !.join = [pc |-> "entering", attempt |-> 1,
                                                     conn |-> c, waited |-> <<>>]],
                           "joinChannel")
               ELSE Commit(w1, ops, "joinChannel")

\* entersState(connection, Ready, 30_000) rejects, or throws at once because
\* this.connection is null
JoinAttemptTimesOut ==
    /\ ops.join.pc = "entering"
    /\ LET r == attemptFailed(World, ops.join)
       IN  Commit(r.w, [ops EXCEPT !.join = r.join], "waitForConnectionReady")

\* the backoff timer fires and the next attempt begins; entersState resolves
\* at once for a connection that is ready
BackoffElapses ==
    /\ ops.join.pc = "backoff"
    /\ LET c == svc.connection
           j == [ops.join EXCEPT !.attempt = @ + 1, !.conn = c]
       IN  IF c # 0 /\ net.connections[c].status = "ready"
           THEN Commit(setupAfterReady(World),
                       [ops EXCEPT !.join = [j EXCEPT !.pc = "returned"]], "joinChannel")
           ELSE Commit(World, [ops EXCEPT !.join = [j EXCEPT !.pc = "entering"]],
                       "waitForConnectionReady")

\* the transport of connection c moves on towards Ready; on Ready the
\* entersState promise of a waiting joinChannel resolves and joinChannel
\* runs to its end
TransportAdvances ==
    \E c \in 1..Len(net.connections) :
        \/ /\ net.connections[c].status = "signalling"
           /\ Commit([World EXCEPT !.net.connections[c].status = "connecting"], ops,
                     "transport")
        \/ /\ net.connections[c].status = "connecting"
           /\ LET w == [World EXCEPT !.net.connections[c].status = "ready"]
              IN  IF ops.join.pc = "entering" /\ ops.join.conn = c
                  THEN Commit(setupAfterReady(w),
                              [ops EXCEPT !.join.pc = "returned"], "joinChannel")
                  ELSE Commit(w, ops, "transport")

\* the transport of connection c reports Disconnected; the listener, if
\* registered, waits for this.connection to enter Signalling or Connecting
TransportDisconnects ==
    \E c \in 1..Len(net.connections) :
        /\ net.connections[c].status \in {"signalling", "connecting", "ready"}
        /\ LET w == [World EXCEPT !.net.connections[c].status = "disconnected"]
               cur == svc.connection
           IN  IF ~net.connections[c].handlers THEN Commit(w, ops, "transport")
               ELSE IF cur = 0 THEN Commit(reconnectFailed(w), ops, "reconnect")
               ELSE IF w.net.connections[cur].status \in {"signalling", "connecting"}
                    THEN Commit(w, ops, "reconnect")
               ELSE Commit(w, [ops EXCEPT !.reconnects = @ \cup {cur}], "reconnect")

\* the transport of a disconnected connection starts over; the listeners
\* waiting for it are done
TransportResumes ==
    \E c \in 1..Len(net.connections), to \in {"signalling", "connecting"} :
        /\ net.connections[c].status = "disconnected"
        /\ Commit([World EXCEPT !.net.connections[c].status = to],
                  [ops EXCEPT !.reconnects = @ \ {c}], "transport")

\* the 10 s of a waiting Disconnected listener run out
ReconnectTimesOut ==
    \E c \in ops.reconnects :
        Commit(reconnectFailed(World), [ops EXCEPT !.reconnects = @ \ {c}], "reconnect")

\* startListening(channel) up to "await genAI.live.connect" in createSession
StartListening ==
    /\ ops.listen = "idle"
    /\ svc.connection # 0
    /\ ~svc.isListening
    /\ Len(net.sessions) < MaxSessions
    /\ LET cur == svc.currentSession
           w == IF cur # 0 THEN closeSession(World, cur) ELSE World
       IN  Commit(w, [ops EXCEPT !.listen = "creating"], "startListening")

\* genAI.live.connect settles and startListening runs to its end
SessionCreated ==
    \E ok \in BOOLEAN :
        /\ ops.listen = "creating"
        /\ IF ok
           THEN LET g == Len(net.sessions) + 1
                    w == [World EXCEPT
                            !.net.sessions = Append(@, [closed |-> FALSE,
                                                        voice |-> svc.connection]),
                            !.svc.currentSession = g,
                            !.svc.geminiSession = g,
                            !.svc.isListening = TRUE]
                IN  Commit(w, [ops EXCEPT !.listen = "idle"], "startListening")
           ELSE Commit(World, [ops EXCEPT !.listen = "idle"], "startListening")

StopListening ==
    /\ svc.geminiSession # 0 \/ svc.isListening
    /\ Commit(stopListening(World), ops, "stopListening")

LeaveChannel ==
    /\ svc.connection # 0 \/ svc.audioPlayer # 0 \/ svc.geminiSession # 0 \/ svc.isListening
    /\ Commit(leaveChannel(World), ops, "leaveChannel")

\* an open AI session delivers an audio chunk: the callback of
\* setupGeminiAudioHandler defers playAudioToDiscord by 10 ms
ReplyArrives ==
    \E g \in 1..Len(net.sessions), empty \in BOOLEAN :
        /\ ~net.sessions[g].closed
        /\ ops.arrived < MaxReplies
        /\ Commit(World,
                  [ops EXCEPT !.arrived = @ + 1,
                              !.timers = Append(@, [session |-> g, n |-> ops.arrived + 1,
                                                    empty |-> empty,
                                                    player |-> svc.audioPlayer,
                                                    connection |-> svc.connection])],
                  "onAudioResponse")

\* the oldest deferred playback runs
ReplyTimerFires ==
    /\ ops.timers # <<>>
    /\ Commit(playAudioToDiscord(World, Head(ops.timers)),
              [ops EXCEPT !.timers = Tail(@)], "playAudioToDiscord")

SessionNext ==
    \/ JoinChannel
    \/ JoinAttemptTimesOut
    \/ BackoffElapses
    \/ TransportAdvances
    \/ TransportDisconnects
    \/ TransportResumes
    \/ ReconnectTimesOut
    \/ StartListening
    \/ SessionCreated
    \/ StopListening
    \/ LeaveChannel
    \/ ReplyArrives
    \/ ReplyTimerFires

SessionSpec == Init /\ [][SessionNext]_vars

\* joining, reconnection and teardown alone; the timers of the service fire
\* in the end: the 30 s of entersState, the backoff of
\* waitForConnectionReady, the 10 s of the Disconnected listener
JoinNext ==
    \/ JoinChannel
    \/ JoinAttemptTimesOut
    \/ BackoffElapses
    \/ TransportAdvances
    \/ TransportDisconnects
    \/ TransportResumes
    \/ ReconnectTimesOut
    \/ LeaveChannel

JoinFairSpec ==
    /\ Init
    /\ [][JoinNext]_vars
    /\ WF_vars(JoinAttemptTimesOut)
    /\ WF_vars(BackoffElapses)
    /\ WF_vars(ReconnectTimesOut)

(***************************************************************************)
(* Listening: startListening called at any time, also while earlier calls  *)
(* await createSession, with stopListening and leaveChannel in between.    *)
(***************************************************************************)
CommitListening(w, l, call) ==
    /\ svc' = w.svc
    /\ net' = w.net
    /\ activeSubscriptions' = w.subs
    /\ listening' = l
    /\ last' = call
    /\ UNCHANGED <<now, ticks, srm, liveVars, streams, ops, liveConn, monitorVars,
                   historyVars>>

\* joinChannel by a service that holds no connection
ListenJoin ==
    /\ svc.connection = 0
    /\ JoinChannel

\* startListening(channel) on a service that holds a connection: ignored
\* when isListening is set, else run up to "await genAI.live.connect" in
\* createSession, which first closes the current session of the AI service
CallStartListening ==
    /\ svc.connection # 0
    /\ listening.run.calls < MaxListenCalls
    /\ Len(net.sessions) + listening.pending.fresh + listening.pending.stale < MaxSessions
    /\ LET l == [listening EXCEPT !.run.calls = @ + 1, !.final = FALSE]
           cur == svc.currentSession
       IN  IF svc.isListening
           THEN CommitListening(World, l, [op |-> "startListening", ignored |-> TRUE])
           ELSE CommitListening(IF cur # 0 THEN closeSession(World, cur) ELSE World,
                                [l EXCEPT !.pending.fresh = @ + 1],
                                [op |-> "startListening", ignored |-> FALSE])

\* genAI.live.connect settles for one of the waiting calls and the call
\* runs to its end: on success createSession returns the new session,
\* setupGeminiAudioHandler and startReceivingAudio run (the latter returns
\* early without a connection) and isListening is set
ListenSessionCreated ==
    \E ok \in BOOLEAN, age \in {"fresh", "stale"} :
        /\ listening.pending[age] > 0
        /\ LET g == Len(net.sessions) + 1
               counted == age = "fresh"
               registers == svc.connection # 0
               w == [World EXCEPT
                       !.net.sessions = Append(@, [closed |-> FALSE,
                                                   voice |-> svc.connection]),
                       !.svc.currentSession = g,
                       !.svc.geminiSession = g,
                       !.svc.isListening = TRUE]
               l == [listening EXCEPT !.pending[age] = @ - 1]
               l2 == [l EXCEPT
                        !.listeners = IF registers THEN @ + 1 ELSE @,
                        !.run.created = IF counted THEN @ + 1 ELSE @,
                        !.run.registered = IF counted /\ registers THEN @ + 1 ELSE @]
           IN  IF ok
               THEN CommitListening(w, l2, [op |-> "sessionCreated", session |-> g,
                                            final |-> listening.final])
               ELSE CommitListening(World, l, [op |-> "sessionFailed"])

\* stopListening(), whatever the service holds
CallStopListening ==
    \E w \in {stopListening(World)} :
        CommitListening(w,
                        [listening EXCEPT
                           !.pending = [fresh |-> 0, stale |-> @.fresh + @.stale],
                           !.run = NoRun, !.final = TRUE],
                        [op |-> "stopListening"])

\* leaveChannel(), whatever the service holds
CallLeaveChannel ==
    \E w \in {leaveChannel(World)} :
        CommitListening(w,
                        [listening EXCEPT
                           !.pending = [fresh |-> 0, stale |-> @.fresh + @.stale],
                           !.listeners = 0, !.run = NoRun, !.final = TRUE],
                        [op |-> "leaveChannel"])

\* a speaker is heard on a ready connection whose receiver has a 'start'
\* listener: subscribeToUser stores the stream, the stream ends after
\* silence with data, its 'end' handler drops the entry and calls
\* processAudioForGemini, which sends when a session is held
SpeakerHeard ==
    /\ listening.listeners > 0
    /\ svc.connection # 0
    /\ net.connections[svc.connection].status = "ready"
    /\ CommitListening(World, listening,
                       [op |-> "processAudioForGemini",
                        sent |-> svc.geminiSession # 0,
                        final |-> listening.final])

ListenNext ==
    \/ ListenJoin
    \/ TransportAdvances
    \/ CallStartListening
    \/ ListenSessionCreated
    \/ CallStopListening
    \/ CallLeaveChannel
    \/ SpeakerHeard

ListenSpec == Init /\ [][ListenNext]_vars

(***************************************************************************)
(* Properties of the voice session.                                        *)
(***************************************************************************)
\* C13: play is never issued on a player that cleanup has stopped, and every
\* reply that is played comes from an AI session that was attached to the
\* voice session the player belongs to.
C13_NoLateReply ==
    \A p \in 1..Len(net.players) :
        \A i \in 1..Len(net.players[p].played) :
            LET r == net.players[p].played[i]
            IN  /\ ~r.onStopped
                /\ net.sessions[r.session].voice = net.players[p].voice

Position(steps, x) == CHOOSE i \in 1..Len(steps) : steps[i] = x /\ \A j \in 1..(i-1) : steps[j] # x
Occurs(steps, x) == \E i \in 1..Len(steps) : steps[i] = x
Before(steps, x, y) ==
    Occurs(steps, x) /\ Occurs(steps, y) /\ Position(steps, x) < Position(steps, y)

\* C15: a leave of a session that holds a player and a connection has, in
\* this order, released the per-speaker subscriptions, stopped the player and
\* destroyed the transport, and releases the connection handle as its last
\* step.
C15_TeardownOrder ==
    ( /\ last.op = "leaveChannel"
      /\ Occurs(last.steps, "transportDestroyed")
      /\ Occurs(last.steps, "playerStopped") ) =>
        /\ Before(last.steps, "subscriptionsCleared", "playerStopped")
        /\ Before(last.steps, "playerStopped", "transportDestroyed")
        /\ last.steps[Len(last.steps)] = "handleReleased"

\* the monitor session was left and no monitor command was given since
MonitorLeft == monitor.connection = "destroyed"

\* C14: after leave, and until a new join, activeStreams and mutedUsers are
\* empty, every monitoring stream is destroyed and no unmute timer is
\* pending, whatever was awaiting when leave ran.
C14_NoResidueAfterLeave ==
    MonitorLeft =>
        /\ activeStreams = EmptyMap
        /\ mutedUsers = EmptyMap
        /\ \A i \in 1..Len(monitor.streams) : monitor.streams[i].destroyed
        /\ \A i \in 1..Len(monitor.timers) : monitor.timers[i].state # "pending"

\* C23: every pending unmute timer is the one stored under its speaker in
\* mutedUsers, so there is at most one pending timer per speaker.
C23_PendingTimersTracked ==
    \A i \in 1..Len(monitor.timers) :
        monitor.timers[i].state = "pending" =>
            /\ MapHas(mutedUsers, monitor.timers[i].user)
            /\ mutedUsers[monitor.timers[i].user] = i

\* the monitoring streams of speaker u whose cleanup has not run
LiveStreamsOf(u) ==
    {i \in 1..Len(monitor.streams) :
        monitor.streams[i].user = u /\ ~monitor.streams[i].destroyed}

\* C34: each speaker has at most one live monitoring stream, and every live
\* monitoring stream is the one whose cleanup is stored under its speaker in
\* activeStreams, however the 'start' listeners and their look-ups interleave.
C34_StreamsUniqueAndTracked ==
    \A u \in Users :
        /\ Cardinality(LiveStreamsOf(u)) <= 1
        /\ \A i \in LiveStreamsOf(u) :
              MapHas(activeStreams, u) /\ activeStreams[u] = i

\* a 'start' listener of speaker u is awaiting its look-ups
StartInFlight(u) ==
    \E i \in 1..Len(monitor.starting) : monitor.starting[i] = u

\* C35: once the 'end' event of a speaker has been handled and no 'start'
\* listener of that speaker is in flight, the speaker has no live monitoring
\* stream and no activeStreams entry, until the speaker's next 'start' event.
C35_StreamReleasedAfterEnd ==
    \A u \in Users :
        (monitor.speaking[u] = "end" /\ ~StartInFlight(u)) =>
            /\ ~MapHas(activeStreams, u)
            /\ LiveStreamsOf(u) = {}

\* the unmute that was due to speaker u has just been skipped because the
\* member was in no voice channel
UnmuteSkipped(u) ==
    /\ last.op \in {"unmuteTimer", "unmute", "unmuteAll"}
    /\ ~last.inVoice
    /\ IF last.op = "unmuteAll" THEN u \in last.users ELSE last.user = u

\* C36: a speaker muted by muteUserForBeingLoud is eventually unmuted by the
\* unmute timer or by an unmute command, unless the member is then in no
\* voice channel, in every execution in which timers run and awaited calls
\* settle, whatever commands are given meanwhile.
C36_MutedEventuallyUnmuted ==
    \A u \in Users :
        (u \in monitor.serverMuted) ~>
            (u \notin monitor.serverMuted \/ UnmuteSkipped(u))

\* C16: right after the connection of the live conversation is destroyed no
\* speaker has a penalty cooldown, a last-response timestamp, a
\* voice-activation count or a tracked speech start.
C16_PurgedOnDestroy ==
    last.op = "connectionDestroyed" =>
        /\ srm.userCooldowns = EmptyMap
        /\ srm.lastResponseTime = EmptyMap
        /\ srm.voiceActivationCount = EmptyMap
        /\ vad.voiceStartTimes = EmptyMap

\* sample i of a buffer of 16-bit samples, and the channels of stereo frame i
SampleOf(bytes, i) == readInt16LE(bytes, 2 * i)
LeftOf(bytes, i) == readInt16LE(bytes, 4 * i)
RightOf(bytes, i) == readInt16LE(bytes, 4 * i + 2)
\* floor((L + R) / 2) of stereo frame i, within the 16-bit range
MeanOf(bytes, i) ==
    LET m == (LeftOf(bytes, i) + RightOf(bytes, i)) \div 2
    IN  IF m < -32768 THEN -32768 ELSE IF m > 32767 THEN 32767 ELSE m

\* C24 as claimed: the round trip of a valid platform buffer does not throw
\* and returns as many frames as it was given, give or take one.
C24_RoundTripKeepsDuration ==
    last.op = "roundTrip" =>
        LET k == Len(last.input.bytes) \div 4
            n == Len(last.result.ret.bytes) \div 4
        IN  /\ ~last.result.threw
            /\ n - k <= 1
            /\ k - n <= 1

\* C24 as amended: the round trip of a valid platform buffer of k frames does
\* not throw and returns 2 * floor(k / 3) frames; frames 2i and 2i + 1 carry
\* the mean of source frame 3i in both channels.
C24_RoundTripTwoThirds ==
    last.op = "roundTrip" =>
        LET in == last.input.bytes
            out == last.result.ret.bytes
            k == Len(in) \div 4
        IN  /\ ~last.result.threw
            /\ Len(out) = 4 * (2 * (k \div 3))
            /\ \A j \in 0..((Len(out) \div 4) - 1) :
                  /\ LeftOf(out, j) = MeanOf(in, 3 * (j \div 2))
                  /\ RightOf(out, j) = MeanOf(in, 3 * (j \div 2))

\* six frames came back as four
C24_Witness ==
    /\ last.op = "roundTrip"
    /\ Len(last.input.bytes) = 24
    /\ ~last.result.threw
    /\ Len(last.result.ret.bytes) = 16
    /\ LeftOf(last.result.ret.bytes, 3) = -1

\* C25: for F bytes discordToGemini returns floor((F / 4) / 3) samples,
\* sample i being the mean of source frame 3i; it does not throw on a
\* partial last frame and returns an empty buffer below 4 bytes.
C25_DownmixRule ==
    last.op = "discordToGemini" =>
        LET in == last.input.bytes
            out == last.result.ret.bytes
            F == Len(in)
        IN  /\ ~last.result.threw
            /\ ~last.result.ret.null
            /\ Len(out) = 2 * ((F \div 4) \div 3)
            /\ \A i \in 0..((Len(out) \div 2) - 1) : SampleOf(out, i) = MeanOf(in, 3 * i)
            /\ F < 4 => out = <<>>

\* six frames and three bytes of a seventh gave two samples, the second
\* the mean -1 of the frame (-1, 0)
C25_Witness ==
    /\ last.op = "discordToGemini"
    /\ Len(last.input.bytes) = 27
    /\ Len(last.result.ret.bytes) = 4
    /\ SampleOf(last.result.ret.bytes, 1) = -1

\* C26: for N whole samples geminiToDiscord returns 2N stereo frames, frame
\* i carrying source sample floor(i / 2) in both channels; it does not throw
\* on a trailing odd byte and returns an empty buffer below 2 bytes.
C26_UpmixRule ==
    last.op = "geminiToDiscord" =>
        LET in == last.input.bytes
            out == last.result.ret.bytes
            N == Len(in) \div 2
        IN  /\ ~last.result.threw
            /\ Len(out) = 8 * N
            /\ \A i \in 0..((Len(out) \div 4) - 1) :
                  /\ LeftOf(out, i) = SampleOf(in, i \div 2)
                  /\ RightOf(out, i) = SampleOf(in, i \div 2)
            /\ Len(in) < 2 => out = <<>>

\* sample i of the noise gate's result is 0 when sample i of the input is
\* below the threshold in absolute value, and the input's sample otherwise
GatedFrom(in, out, threshold) ==
    \A i \in 0..((Len(in) \div 2) - 1) :
        LET v == SampleOf(in, i)
        IN  SampleOf(out, i) = IF v < threshold /\ -v < threshold THEN 0 ELSE v

Stored(h, k) == IF k \in DOMAIN h THEN h[k] ELSE <<>>
IsPrefix(p, q) == Len(p) <= Len(q) /\ SubSeq(q, 1, Len(p)) = p

\* C29: whatever calls were made, getHistory(key) returns exactly the
\* entries appended to the key since it was last cleared, in the order they
\* were appended.
C29_HistoryKeepsTurnOrder ==
    /\ \A k \in HistoryKeys : getHistory(histories, k).ret = turns[k].entries
    /\ last.op = "getHistory" => last.ret = turns[last.channelId].entries

\* getHistory returned two different entries, appended after a clear had
\* removed earlier ones from the key, in the order they were appended
C29_Witness ==
    /\ last.op = "getHistory"
    /\ turns[last.channelId].dropped > 0
    /\ turns[last.channelId].entries = <<"modelTurn", "userTurn">>
    /\ last.ret = <<"modelTurn", "userTurn">>

\* C30: addEntry(k) and clearHistory(k) leave every other key's history as
\* it was; clearAllHistories empties every key; getHistory on a key without
\* history returns an empty sequence and creates no entry; entries are
\* removed by clearHistory and clearAllHistories only.
C30_HistoryFrameConditions ==
    [][ /\ last'.op \in {"addEntry", "clearHistory"} =>
              \A j \in HistoryKeys \ {last'.channelId} :
                  /\ Stored(histories', j) = Stored(histories, j)
                  /\ (j \in DOMAIN histories') = (j \in DOMAIN histories)
        /\ last'.op = "clearAllHistories" =>
              \A j \in HistoryKeys : j \notin DOMAIN histories'
        /\ last'.op = "getHistory" =>
              /\ histories' = histories
              /\ last'.channelId \notin DOMAIN histories => last'.ret = <<>>
        /\ last'.op \in {"addEntry", "getHistory", "hasHistory"} =>
              \A j \in HistoryKeys : IsPrefix(Stored(histories, j), Stored(histories', j))
      ]_vars

\* clearHistory emptied a full key while another key stayed full
C30_Witness ==
    /\ last.op = "clearHistory"
    /\ last.channelId \notin DOMAIN histories
    /\ turns[last.channelId].dropped = MaxTurns
    /\ \E j \in HistoryKeys \ {last.channelId} : Len(Stored(histories, j)) = MaxTurns

\* C20: for a speaker with a recorded start and no active penalty,
\* onVoiceEnd after d ms returns skip when d < 500, high when
\* 1500 <= d <= 10000 and normal otherwise.
C20_PriorityRule ==
    (last.op = "onVoiceEnd" /\ last.tracked /\ ~last.penalised) =>
        last.ret = IF last.duration < 500 THEN "skip"
                   ELSE IF 1500 <= last.duration /\ last.duration <= 10000 THEN "high"
                   ELSE "normal"

\* an utterance of exactly 10,000 ms of a speaker without penalty
C20_Witness ==
    /\ last.op = "onVoiceEnd"
    /\ last.tracked
    /\ ~last.penalised
    /\ last.duration = 10000
    /\ last.ret = "high"

\* C21: onVoiceEnd for a speaker under an active penalty returns skip,
\* whether or not a start is recorded for the speaker.
C21_PenalisedAlwaysSkip ==
    (last.op = "onVoiceEnd" /\ last.penalised) => last.ret = "skip"

\* C22: the tracking map holds one start per speaker: a start sets the
\* speaker's entry to the current time and leaves the others; onVoiceEnd
\* removes the speaker's entry and leaves the others; a sweep removes
\* exactly the entries older than 30,000 ms and leaves the others unchanged.
C22_TrackingBounded ==
    [][ LET old == vad.voiceStartTimes
            new == vad'.voiceStartTimes
        IN  /\ last'.op = "onVoiceStart" =>
                  new = [u \in DOMAIN old \cup {last'.user} |->
                            IF u = last'.user THEN now ELSE old[u]]
            /\ last'.op = "onVoiceEnd" =>
                  new = [u \in DOMAIN old \ {last'.user} |-> old[u]]
            /\ last'.op = "cleanup" =>
                  /\ \A u \in DOMAIN new : now - new[u] <= 30000
                  /\ \A u \in DOMAIN old :
                        now - old[u] <= 30000 => (u \in DOMAIN new /\ new[u] = old[u])
                  /\ DOMAIN new \subseteq DOMAIN old ]_vars

\* a sweep has removed one speaker's start and kept the other's, which is
\* exactly 30,000 ms old
C22_Witness ==
    /\ last.op = "cleanup"
    /\ DOMAIN last.before = Users
    /\ \E u \in Users :
          /\ u \notin DOMAIN vad.voiceStartTimes
          /\ \A v \in Users \ {u} :
                /\ v \in DOMAIN vad.voiceStartTimes
                /\ now - vad.voiceStartTimes[v] = 30000

ConnectionStatus(c) ==
    IF c \in 1..Len(net.connections) THEN net.connections[c].status ELSE "none"

\* the session of connection c is ready but for the transport, which has
\* reported Disconnected
Reconnecting(c) ==
    /\ ConnectionStatus(c) = "disconnected"
    /\ net.connections[c].handlers
    /\ svc.connection = c

\* connection c is destroyed and the service holds neither it nor its player
ReleasedOf(c) ==
    /\ ConnectionStatus(c) = "destroyed"
    /\ svc.connection # c
    /\ svc.audioPlayer = 0 \/ net.players[svc.audioPlayer].voice # c
    /\ svc.connection = 0 =>
          (svc.audioPlayer = 0 /\ activeSubscriptions = EmptyMap /\ ~svc.isListening)

\* C18: a session whose transport reported Disconnected always
\* eventually is ready again or torn down with its resources released.
C18_ReconnectAlwaysExits ==
    \A c \in 1..MaxConnections :
        Reconnecting(c) ~> (ConnectionStatus(c) = "ready" \/ ReleasedOf(c))

\* the waits of waitForConnectionReady after k failed attempts
JoinWaits(k) == [i \in 1..k |-> RETRY_DELAY_MS * i]

\* isConnected(): this.connection?.state.status === Ready
IsConnected ==
    svc.connection # 0 /\ net.connections[svc.connection].status = "ready"

\* C32: the startListening calls made on one connection without a
\* stopListening in between, one after the other or overlapping, create no
\* more than one AI session and register the speaking handlers no more than
\* once.
C32_StartListeningIdempotent ==
    /\ listening.run.created <= 1
    /\ listening.run.registered <= 1

\* isActive(): this.isListening && this.isConnected()
IsActive == svc.isListening /\ IsConnected

\* C33: once stopListening or leaveChannel has returned, and until
\* startListening is called again, isListening is false, no AI session is
\* held, isActive() is false and no captured audio is sent to the backend.
C33_StopIsFinal ==
    /\ listening.final =>
          /\ ~svc.isListening
          /\ svc.geminiSession = 0
          /\ ~IsActive
    /\ (last.op = "processAudioForGemini" /\ last.final) => ~last.sent

\* C40: once joinChannel has ended with the error of waitForConnectionReady,
\* and until a later joinChannel, the service holds no connection handle, no
\* player and no subscription, is not listening, and isConnected() is false.
C40_FailedJoinDisconnected ==
    ops.join.pc = "failed" =>
        /\ svc.connection = 0
        /\ svc.audioPlayer = 0
        /\ activeSubscriptions = EmptyMap
        /\ ~svc.isListening
        /\ ~IsConnected

TimerFires == ops.timers # <<>> /\ ops'.timers = Tail(ops.timers)

Played(r) == [session |-> r.session, n |-> r.n, onStopped |-> FALSE]

LiveStreams(u) ==
    {s \in 1..Len(streams) : streams[s].user = u /\ streams[s].state = "live"}

\* C10: at any time there is at most one live (not yet ended, failed or
\* closed) capture stream per speaker, however speaking-start events and the
\* streams' end, error and close events interleave.
C10_OneLiveStreamPerSpeaker ==
    \A u \in Users : Cardinality(LiveStreams(u)) <= 1

\* C11: whichever of a stream's end, error and close handlers fires, the step
\* leaves every entry of activeSubscriptions that refers to another stream as
\* it was, and afterwards the map holds no entry for the finished stream.
C11_SelfScopedCleanup ==
    [][ \A s \in 1..Len(streams) :
          streams'[s].state # streams[s].state =>
             /\ \A u \in Users :
                   (MapHas(activeSubscriptions, u) /\ activeSubscriptions[u] # s)
                     => /\ MapHas(activeSubscriptions', u)
                        /\ activeSubscriptions'[u] = activeSubscriptions[u]
             /\ \A u \in Users :
                   MapHas(activeSubscriptions', u) => activeSubscriptions'[u] # s ]_vars

\* the chunks the receiver emitted on stream s, in arrival order
DeliveredOn(s) ==
    [k \in 1..streams[s].delivered |-> Chunk(streams[s].user, k)]

\* C12: when a stream ends, the buffer handed to processAudioForGemini is the
\* concatenation, in arrival order, of exactly the chunks delivered on that
\* stream since it was subscribed, whatever arrived on other streams in
\* between; with no chunk delivered nothing is handed on.
C12_BufferIsolation ==
    [][ \A s \in 1..Len(streams) :
          (streams[s].state = "live" /\ streams'[s].state = "ended") =>
             /\ last'.op = "streamEnd"
             /\ last'.stream = s
             /\ last'.processed = (streams[s].delivered > 0)
             /\ last'.combinedBuffer = DeliveredOn(s)
             /\ \A i \in 1..Len(last'.combinedBuffer) :
                   last'.combinedBuffer[i].user = streams[s].user ]_vars

\* a stream that got two chunks has ended and its buffer was handed on while
\* a stream of another speaker, subscribed earlier, has chunks of its own
C12_Witness ==
    /\ last.op = "streamEnd"
    /\ last.processed
    /\ Len(last.combinedBuffer) = 2
    /\ streams[last.stream].state = "ended"
    /\ \E x \in 1..Len(streams) :
          /\ x < last.stream
          /\ streams[x].user # streams[last.stream].user
          /\ streams[x].state = "live"
          /\ streams[x].delivered > 0

(***************************************************************************)
(* Properties of the throttling engine.                                    *)
(***************************************************************************)
IsPhaseA(l) == l.op = "shouldConsiderResponse"
IsPhaseB(l) == l.op = "shouldRespond"
InteractionCount(m, u) == MapGet(m.userInteractionCount, u, 0)
\* the counter a call works on once "Reset hourly counter" has run
RolledCount == IF now > srm.hourlyResetTime THEN 0 ELSE srm.responseCount
\* the hourly limit is reached and the reset deadline has not passed
AtHourlyLimit ==
    /\ srm.responseCount >= MAX_RESPONSES_PER_HOUR
    /\ now <= srm.hourlyResetTime

\* C3: while the hourly counter is at MAX_RESPONSES_PER_HOUR and the reset
\* deadline has not passed, every shouldConsiderResponse call and every
\* shouldRespond call (any speaker, any transcript, a wake term included)
\* returns false and leaves the counter and the deadline as they are, so the
\* engine stays at the limit until the deadline passes.
C3_LimitRejectsAll ==
    [][ (AtHourlyLimit /\ (IsPhaseA(last') \/ IsPhaseB(last')))
          => /\ last'.ret = FALSE
             /\ srm'.responseCount = srm.responseCount
             /\ srm'.hourlyResetTime = srm.hourlyResetTime ]_vars

C3_Witness ==
    /\ IsPhaseB(last) /\ last.text = WakeText /\ last.ret = FALSE
    /\ AtHourlyLimit
    /\ srm.responseCount = MAX_RESPONSES_PER_HOUR

\* C4 as claimed: with the counter at the maximum, the first Phase A or
\* Phase B call made after the deadline has passed resets the counter and
\* sets the deadline to now + 3,600,000 ms.
C4_AnyCallRollsOver ==
    [][ ( /\ IsPhaseA(last') \/ IsPhaseB(last')
          /\ srm.responseCount = MAX_RESPONSES_PER_HOUR
          /\ now > srm.hourlyResetTime )
          => srm'.hourlyResetTime = now + HOUR_MS ]_vars

\* C4 as amended: a Phase B call, and a Phase A call that passes the
\* voice-spam check, made after the deadline has passed (now > deadline)
\* resets the counter to 0 and sets the deadline to now + 3,600,000 ms before
\* the limit is checked, so a wake-term shouldRespond call is admitted and
\* leaves the counter at exactly 1; a call exactly at the deadline instant with
\* the counter at the maximum is rejected and rolls nothing over.  A Phase A
\* call that the voice-spam check rejects rolls nothing over.
C4_RolloverBoundary ==
    [][ \A u \in Users :
          LET spamOk == checkVoiceSpam(srm, u, now).ret
              reaches == \/ IsPhaseB(last')
                         \/ IsPhaseA(last') /\ spamOk
          IN  (last'.op \in {"shouldConsiderResponse", "shouldRespond"}
                 /\ last'.user = u)
              => /\ (reaches /\ now > srm.hourlyResetTime)
                      => /\ srm'.hourlyResetTime = now + HOUR_MS
                         /\ srm'.responseCount = IF last'.ret /\ IsPhaseB(last') THEN 1 ELSE 0
                         /\ (IsPhaseB(last') /\ last'.text = WakeText) => last'.ret
                 /\ (now = srm.hourlyResetTime
                        /\ srm.responseCount = MAX_RESPONSES_PER_HOUR)
                      => /\ last'.ret = FALSE
                         /\ srm'.responseCount = srm.responseCount
                         /\ srm'.hourlyResetTime = srm.hourlyResetTime
                 /\ (IsPhaseA(last') /\ ~spamOk)
                      => /\ srm'.responseCount = srm.responseCount
                         /\ srm'.hourlyResetTime = srm.hourlyResetTime ]_vars

\* a wake-term call just after the deadline, admitted as the first response
\* of the new hour, MAX_RESPONSES_PER_HOUR responses having filled the old one
C4_Witness ==
    /\ IsPhaseB(last) /\ last.text = WakeText /\ last.ret = TRUE
    /\ srm.responseCount = 1
    /\ now = StartTime + HOUR_MS + 1
    /\ srm.hourlyResetTime = now + HOUR_MS
    /\ InteractionCount(srm, "u1") + InteractionCount(srm, "u2")
         = MAX_RESPONSES_PER_HOUR + 1

\* C5 as claimed: a shouldRespond call whose transcript contains a wake term
\* is always accepted.
C5_WakeAlwaysAccepted ==
    [][ (IsPhaseB(last') /\ last'.text = WakeText) => last'.ret = TRUE ]_vars

\* C5 as amended: unless the hourly limit is reached (checked first, after the
\* rollover), a shouldRespond call whose transcript contains a wake term in any
\* letter case is accepted whatever the channel's and the speaker's
\* last-response timestamps are and whatever the random draw is, and the
\* acceptance records the response.
C5_WakeBypassesCooldowns ==
    [][ \A u \in Users, c \in Channels :
          ( /\ IsPhaseB(last') /\ last'.text = WakeText
            /\ last'.user = u /\ last'.channel = c
            /\ RolledCount < MAX_RESPONSES_PER_HOUR )
          => /\ last'.ret = TRUE
             /\ \A draw \in BOOLEAN :
                   shouldRespond(srm, u, c, WakeText, now, draw).ret = TRUE
             /\ srm'.lastResponseTime[u] = now
             /\ srm'.channelCooldowns[c] = now
             /\ srm'.responseCount = RolledCount + 1
             /\ InteractionCount(srm', u) = InteractionCount(srm, u) + 1 ]_vars

\* a wake-term acceptance for a speaker answered at this very instant: the
\* second answer to the same speaker before the first clock advance
C5_Witness ==
    /\ IsPhaseB(last) /\ last.text = WakeText /\ last.ret = TRUE
    /\ ticks = 0
    /\ InteractionCount(srm, last.user) >= 2

\* C8: shouldRespond returns true exactly when it records the response: on
\* acceptance the channel's and the speaker's last-response timestamps are now,
\* the hourly counter (after a rollover, if one was due) is one higher and the
\* speaker's interaction counter is one higher; on rejection the timestamps and
\* the interaction counters are unchanged and the hourly counter changes only
\* by the rollover.
C8_RespondIffRecorded ==
    [][ \A u \in Users, c \in Channels :
          (IsPhaseB(last') /\ last'.user = u /\ last'.channel = c)
          => /\ last'.ret = TRUE
                  => /\ srm'.lastResponseTime[u] = now
                     /\ srm'.channelCooldowns[c] = now
                     /\ srm'.responseCount = RolledCount + 1
                     /\ InteractionCount(srm', u) = InteractionCount(srm, u) + 1
             /\ last'.ret = FALSE
                  => /\ srm'.lastResponseTime = srm.lastResponseTime
                     /\ srm'.channelCooldowns = srm.channelCooldowns
                     /\ srm'.responseCount = RolledCount
                     /\ srm'.userInteractionCount = srm.userInteractionCount ]_vars

\* a random (no wake term) acceptance that has been recorded
C8_Witness ==
    /\ IsPhaseB(last) /\ last.text = PlainText /\ last.ret = TRUE
    /\ srm.lastResponseTime[last.user] = now
    /\ InteractionCount(srm, last.user) = 1
    /\ srm.responseCount = 1

(***************************************************************************)
(* Properties of the voice-spam detector.                                  *)
(***************************************************************************)
PenaltyUntil(m, u) == MapGet(m.userCooldowns, u, 0)
UnderPenalty(m, u, t) == t < PenaltyUntil(m, u)
\* the speaker has made VOICE_SPAM_THRESHOLD activations in the window that
\* is still running
AtSpamThreshold(u) ==
    /\ MapHas(srm.voiceActivationCount, u)
    /\ srm.voiceActivationCount[u].count >= VOICE_SPAM_THRESHOLD
    /\ now <= srm.voiceActivationCount[u].resetTime

\* C6: once a speaker has made VOICE_SPAM_THRESHOLD activations within one
\* 60,000 ms window, every further Phase A call of that speaker in that window
\* is rejected; such a call spaced at least VOICE_SPAM_COOLDOWN_MS after the
\* last activation leaves the speaker under a penalty cooldown, which is set to
\* now + 60,000 ms when none was running.
C6_SpamPenalty ==
    [][ \A u \in Users :
          (IsPhaseA(last') /\ last'.user = u /\ AtSpamThreshold(u))
          => /\ last'.ret = FALSE
             /\ srm'.voiceActivationCount = srm.voiceActivationCount
             /\ (now - MapGet(srm.lastVoiceActivation, u, 0) >= VOICE_SPAM_COOLDOWN_MS)
                  => /\ UnderPenalty(srm', u, now)
                     /\ ~UnderPenalty(srm, u, now)
                          => PenaltyUntil(srm', u) = now + SPAM_PENALTY_MS ]_vars

\* the call that finds three activations in the running window, is spaced
\* 2,500 ms after the third and puts the speaker under the penalty
C6_Witness ==
    /\ IsPhaseA(last) /\ last.ret = FALSE
    /\ AtSpamThreshold(last.user)
    /\ now - srm.lastVoiceActivation[last.user] >= VOICE_SPAM_COOLDOWN_MS
    /\ PenaltyUntil(srm, last.user) = now + SPAM_PENALTY_MS

\* C7: while a speaker's penalty-cooldown-until timestamp is in the future,
\* shouldConsiderResponse for that speaker returns false and leaves the
\* last-activation timestamps, the activation window counters, the hourly
\* counter and deadline and all last-response timestamps unchanged.
C7_PenaltyDominates ==
    [][ \A u \in Users :
          (IsPhaseA(last') /\ last'.user = u /\ UnderPenalty(srm, u, now))
          => /\ last'.ret = FALSE
             /\ srm'.lastVoiceActivation = srm.lastVoiceActivation
             /\ srm'.voiceActivationCount = srm.voiceActivationCount
             /\ srm'.responseCount = srm.responseCount
             /\ srm'.hourlyResetTime = srm.hourlyResetTime
             /\ srm'.lastResponseTime = srm.lastResponseTime
             /\ srm'.channelCooldowns = srm.channelCooldowns ]_vars

\* a Phase A call made after the penalty was imposed and while it runs, spaced
\* well after the last activation, with responses already counted
C7_Witness ==
    /\ IsPhaseA(last) /\ last.ret = FALSE
    /\ UnderPenalty(srm, last.user, now)
    /\ PenaltyUntil(srm, last.user) < now + SPAM_PENALTY_MS
    /\ now - srm.lastVoiceActivation[last.user] >= VOICE_SPAM_COOLDOWN_MS
    /\ srm.responseCount > 0

\* the speaker's activations in the window that is running at t
WindowCount(m, u, t) ==
    IF MapHas(m.voiceActivationCount, u) /\ t <= m.voiceActivationCount[u].resetTime
    THEN m.voiceActivationCount[u].count
    ELSE 0
\* no running penalty, spaced from the last activation, window not full
PassesSpamCheck(m, u, t) ==
    /\ ~UnderPenalty(m, u, t)
    /\ t - MapGet(m.lastVoiceActivation, u, 0) >= VOICE_SPAM_COOLDOWN_MS
    /\ WindowCount(m, u, t) < VOICE_SPAM_THRESHOLD

\* C31: a shouldConsiderResponse call that passes the spam check leaves the
\* speaker's counter one above the count of the running window and the
\* last-activation timestamp at now, whatever the call then returns; a call
\* rejected inside the spam check changes no counter and no last-activation
\* timestamp.
C31_PhaseATracksActivation ==
    [][ \A u \in Users :
          (IsPhaseA(last') /\ last'.user = u)
          => IF PassesSpamCheck(srm, u, now)
             THEN /\ MapHas(srm'.voiceActivationCount, u)
                  /\ srm'.voiceActivationCount[u].count = WindowCount(srm, u, now) + 1
                  /\ MapGet(srm'.lastVoiceActivation, u, 0) = now
                  /\ \A v \in Users \ {u} :
                        /\ WindowCount(srm', v, now) = WindowCount(srm, v, now)
                        /\ MapGet(srm'.lastVoiceActivation, v, 0)
                             = MapGet(srm.lastVoiceActivation, v, 0)
             ELSE /\ last'.ret = FALSE
                  /\ srm'.voiceActivationCount = srm.voiceActivationCount
                  /\ srm'.lastVoiceActivation = srm.lastVoiceActivation ]_vars

\* a call stopped by the hourly limit that has counted the speaker's second
\* activation
C31_Witness ==
    /\ IsPhaseA(last) /\ last.ret = FALSE
    /\ srm.responseCount >= MAX_RESPONSES_PER_HOUR
    /\ now <= srm.hourlyResetTime
    /\ srm.lastVoiceActivation[last.user] = now
    /\ srm.voiceActivationCount[last.user].count = 2

\* C37: right after resetCooldowns the hourly counter is 0 with the deadline
\* one hour ahead, no last-response timestamp and no interaction count is
\* left, and no speaker has a penalty, an activation count or a
\* last-activation timestamp.
C37_ResetClearsEverything ==
    last.op = "resetCooldowns" =>
        /\ srm.responseCount = 0
        /\ srm.hourlyResetTime = now + HOUR_MS
        /\ srm.lastResponseTime = EmptyMap
        /\ srm.channelCooldowns = EmptyMap
        /\ srm.userInteractionCount = EmptyMap
        /\ \A u \in Users : ~UnderPenalty(srm, u, now)
        /\ srm.voiceActivationCount = EmptyMap
        /\ srm.lastVoiceActivation = EmptyMap

\* C38: the hourly counter is between 0 and MAX_RESPONSES_PER_HOUR, and
\* getStats reports no more responses than the maximum and no negative time
\* until the reset.
C38_CounterWithinLimit ==
    /\ srm.responseCount >= 0
    /\ srm.responseCount <= MAX_RESPONSES_PER_HOUR
    /\ last.op = "getStats" =>
          /\ last.ret.responsesThisHour = srm.responseCount
          /\ last.ret.responsesThisHour <= last.ret.maxResponsesPerHour
          /\ last.ret.timeUntilReset >= 0

\* getStats called with the counter at the maximum and the deadline passed
C38_Witness ==
    /\ last.op = "getStats"
    /\ last.ret.responsesThisHour = MAX_RESPONSES_PER_HOUR
    /\ now > srm.hourlyResetTime
    /\ last.ret.timeUntilReset = 0

\* the speaker has a penalty entry whose time has passed: no call of the
\* speaker has looked at it since
PenaltyExpired(m, u, t) == MapHas(m.userCooldowns, u) /\ t >= m.userCooldowns[u]

\* C39: the first Phase A call of a speaker after the penalty has expired
\* finds the activation window elapsed, passes the spam check, restarts the
\* window with count 1 and imposes no penalty.
C39_NoPenaltyAtExpiry ==
    [][ \A u \in Users :
          (IsPhaseA(last') /\ last'.user = u /\ PenaltyExpired(srm, u, now))
          => /\ MapHas(srm.voiceActivationCount, u)
             /\ now > srm.voiceActivationCount[u].resetTime
             /\ MapGet(srm'.lastVoiceActivation, u, 0) = now
             /\ MapHas(srm'.voiceActivationCount, u)
             /\ srm'.voiceActivationCount[u]
                  = [count |-> 1, resetTime |-> now + ACTIVATION_WINDOW_MS]
             /\ ~MapHas(srm'.userCooldowns, u) ]_vars

\* the call made at the very instant the penalty ends
C39_Witness ==
    /\ IsPhaseA(last)
    /\ last.expired
    /\ ~MapHas(srm.userCooldowns, last.user)
    /\ srm.lastVoiceActivation[last.user] = now
    /\ srm.voiceActivationCount[last.user]
         = [count |-> 1, resetTime |-> now + ACTIVATION_WINDOW_MS]
    /\ now = StartTime + 3 * VOICE_SPAM_COOLDOWN_MS + SPAM_PENALTY_MS

(***************************************************************************)
(* Properties of the live conversation.                                    *)
(***************************************************************************)
\* the utterances the state knows: those awaiting the backend and the one
\* whose handler ran last
Utterances ==
    {handlers[h] : h \in {g \in 1..MaxHandlers : handlers[g].pc # "free"}}
      \cup (IF last.op = "speakingEnd" THEN {last.ut} ELSE {})

C2_PlayOnlyAfterPhaseB ==
    \A ut \in Utterances :
        /\ ut.played =>
              /\ ut.result.kind = "result" /\ ut.result.audio = "audio"
              /\ ut.phaseB = "accepted"
              /\ ut.asked = ut.result.transcription
              /\ ut.backend
        /\ ut.phaseB = "rejected" => ~ut.played
        /\ (ut.result.kind = "result" /\ ut.result.audio = "empty")
              => (~ut.played /\ ut.phaseB = "notCalled")

\* a reply played after shouldRespond accepted a transcript without wake term
C2_Witness ==
    /\ last.op = "speakingEnd"
    /\ last.ut.played
    /\ last.ut.phaseB = "accepted"
    /\ last.ut.asked = PlainText

\* C9: a shouldRespond acceptance in the speaking-end handler whose transcript
\* holds no wake term happens only when at least GLOBAL_COOLDOWN_MS have passed
\* since the previous acceptance in the channel and at least USER_COOLDOWN_MS
\* since the previous acceptance for the same speaker, however the handlers of
\* several utterances interleave.
C9_NonWakeSpacing ==
    [][ ( /\ handlers' # handlers
          /\ last'.op = "speakingEnd"
          /\ last'.ut.phaseB = "accepted"
          /\ last'.ut.asked # WakeText )
          => /\ now - MapGet(accepted.channel, LiveChannel, 0) >= GLOBAL_COOLDOWN_MS
             /\ now - MapGet(accepted.user, last'.ut.user, 0) >= USER_COOLDOWN_MS ]_vars

\* the second acceptance in the channel, without wake term, after a clock
\* advance, while another utterance that passed Phase A awaits the backend
C9_Witness ==
    /\ last.op = "speakingEnd"
    /\ last.ut.phaseB = "accepted"
    /\ last.ut.asked # WakeText
    /\ MapGet(accepted.channel, LiveChannel, 0) = now
    /\ srm.responseCount = 2
    /\ ticks = 1
    /\ \E h \in 1..MaxHandlers :
          handlers[h].pc = "awaitBackend" /\ handlers[h].phaseA = "accepted"

====
